---- MODULE Spec2Model ----
(***************************************************************************)
(* Web discovery crawler and hierarchical graph assembler of web_recon:    *)
(*   recon/url_classify.py           classify_url, normalize_url           *)
(*   recon/html_link_discovery.py    crawl and its helpers                 *)
(*   recon/js_route_discovery.py     script route extraction               *)
(*   scripts/build_hierarchical_json.py   build_hierarchy                  *)
(*                                                                         *)
(* A Python str is modelled as a sequence of tokens.  A token is either a  *)
(* delimiter character (":" "/" "." "?" "#" "&" "=" "[") or a word that    *)
(* contains no delimiter.  Concatenation of strings is \o, and prefix,     *)
(* suffix and substring tests are made on the token sequences.  No word    *)
(* of an input contains a hint word of the classifier as a proper part, so *)
(* a token sequence denotes exactly one string and a hint occurs in a      *)
(* string exactly when its tokens occur contiguously.                      *)
(***************************************************************************)
EXTENDS Integers, Sequences, FiniteSets, TLC

(***************************************************************************)
(* str methods                                                             *)
(***************************************************************************)

\* s.startswith(p)
StartsWith(s, p) ==
    /\ Len(p) <= Len(s)
    /\ SubSeq(s, 1, Len(p)) = p

\* s.endswith(p)
EndsWith(s, p) ==
    /\ Len(p) <= Len(s)
    /\ SubSeq(s, Len(s) - Len(p) + 1, Len(s)) = p

\* p in s
Contains(s, p) ==
    \E i \in 0..(Len(s) - Len(p)) : SubSeq(s, i + 1, i + Len(p)) = p

\* index of the first token of s that is in T, 0 when there is none
FirstIdx(s, T) ==
    IF \E i \in 1..Len(s) : s[i] \in T
    THEN CHOOSE i \in 1..Len(s) :
             /\ s[i] \in T
             /\ \A j \in 1..(i - 1) : s[j] \notin T
    ELSE 0

\* index of the last token of s equal to c, 0 when there is none
LastIdx(s, c) ==
    IF \E i \in 1..Len(s) : s[i] = c
    THEN CHOOSE i \in 1..Len(s) :
             /\ s[i] = c
             /\ \A j \in (i + 1)..Len(s) : s[j] # c
    ELSE 0

\* s.rsplit(c, 1)[-1]: what follows the last c, the whole of s without c
RSplitLast(s, c) == SubSeq(s, LastIdx(s, c) + 1, Len(s))

\* the upper-case words of the alphabet and their lower-case forms
LowerTok(t) ==
    CASE t = "API" -> "api"
      [] t = "PNG" -> "png"
      [] t = "RSS" -> "rss"
      [] t = "HTTPS" -> "https"
      [] t = "Example" -> "example"
      [] OTHER -> t

\* s.lower()
Lower(s) == [i \in 1..Len(s) |-> LowerTok(s[i])]

\* s.split('/') with the empty pieces dropped: [seg for seg in s.split('/') if seg],
\* the maximal runs of tokens other than "/", in order
SplitSegs(s) ==
    LET starts   == { i \in 1..Len(s) : s[i] # "/" /\ (i = 1 \/ s[i - 1] = "/") }
        nth(k)   == CHOOSE i \in starts : Cardinality({ j \in starts : j < i }) = k - 1
        endOf(i) == CHOOSE j \in i..Len(s) :
                        /\ \A k \in i..j : s[k] # "/"
                        /\ (j = Len(s) \/ s[j + 1] = "/")
    IN  [ k \in 1..Cardinality(starts) |-> SubSeq(s, nth(k), endOf(nth(k))) ]

(***************************************************************************)
(* urllib.parse as the sources use it                                      *)
(***************************************************************************)

SchemeWords == {"http", "https", "HTTPS", "ftp", "mailto"}

\* schemes that urljoin resolves against a base (urllib.parse.uses_relative)
UsesRelative == {"http", "https", "ftp"}

\* s cut at its first token in T: head is what precedes it, tail what
\* follows it, found whether there is one (str.split(c, 1), str.find)
CutAt(s, T) ==
    LET d == FirstIdx(s, T)
    IN  [ found |-> d # 0,
          head  |-> IF d = 0 THEN s ELSE SubSeq(s, 1, d - 1),
          tail  |-> IF d = 0 THEN << >> ELSE SubSeq(s, d + 1, Len(s)) ]

\* urlsplit after the scheme and the netloc are taken: the fragment is cut at
\* the first "#", then the query at the first "?"; a netloc with "[" and no
\* "]" raises ValueError (ok = FALSE).  hostname is the netloc lower-cased,
\* None (<< >>) when empty.
ParseTail(scheme, netloc, rest) ==
    [ ok       |-> ~(\E i \in 1..Len(netloc) : netloc[i] = "["),
      scheme   |-> scheme,
      netloc   |-> netloc,
      hostname |-> Lower(netloc),
      path     |-> CutAt(CutAt(rest, {"#"}).head, {"?"}).head,
      query    |-> CutAt(CutAt(rest, {"#"}).head, {"?"}).tail,
      fragment |-> CutAt(rest, {"#"}).tail ]

\* urlsplit after the scheme is taken: the netloc runs from "//" to the first
\* of "/", "?", "#"
ParseNetloc(scheme, r1) ==
    IF ~StartsWith(r1, << "/", "/" >>) THEN ParseTail(scheme, << >>, r1)
    ELSE LET d == FirstIdx(SubSeq(r1, 3, Len(r1)), {"/", "?", "#"})
         IN  IF d = 0 THEN ParseTail(scheme, SubSeq(r1, 3, Len(r1)), << >>)
             ELSE ParseTail(scheme, SubSeq(r1, 3, d + 1), SubSeq(r1, d + 2, Len(r1)))

\* urlparse(url): the scheme, lower-cased, is the word in front of a leading
\* ":"
urlparse(url) ==
    IF Len(url) >= 2 /\ url[1] \in SchemeWords /\ url[2] = ":"
    THEN ParseNetloc(<< LowerTok(url[1]) >>, SubSeq(url, 3, Len(url)))
    ELSE ParseNetloc(<< >>, url)

\* ParseResult.geturl() / urlunparse: an empty query or fragment is dropped
\* together with its "?" or "#"
geturl(p) ==
    (IF p.scheme # << >> THEN p.scheme \o << ":" >> ELSE << >>)
    \o (IF p.netloc # << >> THEN << "/", "/" >> \o p.netloc ELSE << >>)
    \o p.path
    \o (IF p.query # << >> THEN << "?" >> \o p.query ELSE << >>)
    \o (IF p.fragment # << >> THEN << "#" >> \o p.fragment ELSE << >>)

\* the directory of a base path: up to and with its last "/", "/" without one
BaseDir(bpath) ==
    IF LastIdx(bpath, "/") = 0 THEN << "/" >>
    ELSE SubSeq(bpath, 1, LastIdx(bpath, "/"))

\* urljoin once base (b) and reference (u) are parsed and neither is empty;
\* sc is the reference's scheme, the base's when it has none
JoinParsed(url, b, u, sc) ==
    IF ~b.ok \/ ~u.ok THEN [ok |-> FALSE, value |-> << >>]
    ELSE IF sc # b.scheme \/ (sc # << >> /\ sc[1] \notin UsesRelative)
         THEN [ok |-> TRUE, value |-> url]
    ELSE IF u.netloc # << >>
         THEN [ok |-> TRUE, value |-> geturl([u EXCEPT !.scheme = sc])]
    ELSE IF u.path = << >>
         THEN [ok |-> TRUE,
               value |-> geturl([b EXCEPT !.query = IF u.query = << >>
                                                   THEN b.query ELSE u.query,
                                        !.fragment = u.fragment])]
    ELSE IF u.path[1] = "/"
         THEN [ok |-> TRUE,
               value |-> geturl([u EXCEPT !.scheme = sc, !.netloc = b.netloc])]
    ELSE [ok |-> TRUE,
          value |-> geturl([u EXCEPT !.scheme = sc, !.netloc = b.netloc,
                                     !.path = BaseDir(b.path) \o u.path])]

JoinSchemed(url, b, u) ==
    JoinParsed(url, b, u, IF u.scheme = << >> THEN b.scheme ELSE u.scheme)

\* urljoin(base, url) for references without dot segments: an empty
\* reference is the base; a reference with another scheme, or a scheme that
\* is not relative, is returned as written; a reference with a netloc keeps
\* its own authority; an empty path takes the base's path (and its query when
\* the reference has none); an absolute path replaces the base's path; a
\* relative path replaces the base path's last segment.  Raises when either
\* argument does not parse (ok = FALSE, value << >>).
urljoin(base, url) ==
    IF url = << >> THEN [ok |-> TRUE, value |-> base]
    ELSE IF base = << >> THEN [ok |-> TRUE, value |-> url]
    ELSE JoinSchemed(url, urlparse(base), urlparse(url))

(***************************************************************************)
(* recon/url_classify.py                                                   *)
(***************************************************************************)

ASSET_EXTS ==
    {"js", "css", "png", "jpg", "jpeg", "gif", "svg", "ico", "webp", "woff",
     "woff2", "ttf", "eot", "map", "mp4", "webm", "mp3", "wav", "pdf", "zip",
     "gz", "tar", "rar", "7z", "xml", "txt", "json"}

ASSET_PATH_HINTS ==
    { << "/", "static", "/" >>, << "/", "assets", "/" >>, << "/", "images", "/" >>,
      << "/", "img", "/" >>, << "/", "fonts", "/" >>, << "/", "cdn-cgi", "/" >> }

API_HINTS ==
    { << "/", "api", "/" >>, << "/", "graphql" >>, << "/", "v1", "/" >>,
      << "/", "v2", "/" >>, << "/", "search" >>, << "/", "query" >>,
      << "/", "autocomplete" >> }

FEED_HINTS == { << "/", "rss" >>, << "/", "atom" >> }

ASSET_NAME_HINTS ==
    { << "favicon" >>, << "apple-touch-icon" >>, << "manifest", ".", "json" >>,
      << "browserconfig", ".", "xml" >>, << "safari-pinned-tab", ".", "svg" >> }

Categories == {"page", "api", "asset", "feed"}

\* the rules of classify_url with the json extension rule moved in front of
\* the asset name and path hints
classify_rules_json_first(path, name, ext) ==
    IF \E h \in FEED_HINTS : EndsWith(path, h) THEN "feed"
    ELSE IF name = << "robots", ".", "txt" >> \/ name = << "sitemap", ".", "xml" >>
         THEN "page"
    ELSE IF ext = << "json" >>
         THEN IF \E h \in API_HINTS : Contains(path, h) THEN "api" ELSE "asset"
    ELSE IF \E h \in ASSET_NAME_HINTS : Contains(name, h) THEN "asset"
    ELSE IF \E h \in ASSET_PATH_HINTS : Contains(path, h) THEN "asset"
    ELSE IF ext \in { << "xml" >>, << "txt" >> } THEN "asset"
    ELSE IF \E e \in ASSET_EXTS : ext = << e >> THEN "asset"
    ELSE IF \E h \in API_HINTS : Contains(path, h) THEN "api"
    ELSE "page"

\* lines 42-65: the first rule that fires, path lower-cased, name its part
\* after the last "/", ext its part after the last "."
classify_rules(path, name, ext) ==
    IF \E h \in FEED_HINTS : EndsWith(path, h) THEN "feed"
    ELSE IF name = << "robots", ".", "txt" >> \/ name = << "sitemap", ".", "xml" >>
         THEN "page"
    ELSE IF \E h \in ASSET_NAME_HINTS : Contains(name, h) THEN "asset"
    ELSE IF \E h \in ASSET_PATH_HINTS : Contains(path, h) THEN "asset"
    ELSE IF ext \in { << "xml" >>, << "txt" >> }
         THEN IF name \in { << "robots", ".", "txt" >>, << "sitemap", ".", "xml" >> }
              THEN "page" ELSE "asset"
    ELSE IF ext = << "json" >>
         THEN IF \E h \in API_HINTS : Contains(path, h) THEN "api" ELSE "asset"
    ELSE IF \E e \in ASSET_EXTS : ext = << e >> THEN "asset"
    ELSE IF \E h \in API_HINTS : Contains(path, h) THEN "api"
    ELSE "page"

\* lines 39-51: name and ext of the lower-cased path; ext is what follows
\* the last "." of the whole path, not of the file name
classify_path(path) ==
    classify_rules(path, RSplitLast(path, "/"),
                   IF \E i \in 1..Len(path) : path[i] = "."
                   THEN RSplitLast(path, ".") ELSE << >>)

classify_parsed(p) ==
    IF ~p.ok THEN "other" ELSE classify_path(Lower(p.path))

\* classify_url(url): "other" when urlparse raises, else the first rule that
\* fires on the lower-cased path
classify_url(url) == classify_parsed(urlparse(url))

\* should_graph(url_type)
should_graph(url_type) == url_type \in {"page", "api"}

\* lines 26-29: the joined URL without its fragment, "" without scheme or
\* netloc or when urlparse raises
normalize_parsed(p) ==
    IF ~p.ok THEN << >>
    ELSE IF p.scheme = << >> \/ p.netloc = << >> THEN << >>
    ELSE geturl([p EXCEPT !.fragment = << >>])

normalize_joined(j) ==
    IF ~j.ok THEN << >> ELSE normalize_parsed(urlparse(j.value))

\* normalize_url(base, raw): "" for an empty raw and whenever urljoin or
\* urlparse raises; a raw that starts with "//" first takes the base's scheme
normalize_url(base, raw) ==
    IF raw = << >> THEN << >>
    ELSE IF StartsWith(raw, << "/", "/" >>)
         THEN IF ~urlparse(base).ok THEN << >>
              ELSE normalize_joined(urljoin(base, urlparse(base).scheme \o << ":" >> \o raw))
    ELSE normalize_joined(urljoin(base, raw))

(***************************************************************************)
(* scripts/build_hierarchical_json.py                                      *)
(***************************************************************************)

FILE_EXTS ==
    {"html", "htm", "php", "asp", "aspx", "jsp", "js", "css", "png", "jpg",
     "jpeg", "gif", "svg", "ico", "pdf", "xml", "json", "txt", "csv", "zip",
     "gz", "tar", "rar", "7z", "mp4", "woff", "woff2", "ttf", "eot"}

\* the indices of the "." tokens of s
DotIdxs(s) == { i \in 1..Len(s) : s[i] = "." }

\* apex_of(host): the last two labels of the lower-cased host, the host
\* itself when it has fewer than two
apex_of(host) ==
    LET h    == Lower(host)
        dots == DotIdxs(h)
    IN  IF Cardinality(dots) < 2 THEN h
        ELSE LET last == LastIdx(h, ".")
                 prev == CHOOSE i \in dots :
                             i < last /\ \A j \in dots : j < last => j <= i
             IN  SubSeq(h, prev + 1, Len(h))

\* lines 40-41: a leading http:// or https:// removed, the text in front of
\* the first "/", lower-cased
HostByText(s) ==
    IF Len(s) >= 4 /\ LowerTok(s[1]) \in {"http", "https"}
       /\ SubSeq(s, 2, 4) = << ":", "/", "/" >>
    THEN Lower(IF CutAt(SubSeq(s, 5, Len(s)), {"/"}).found
               THEN CutAt(SubSeq(s, 5, Len(s)), {"/"}).head
               ELSE SubSeq(s, 5, Len(s)))
    ELSE Lower(IF CutAt(s, {"/"}).found THEN CutAt(s, {"/"}).head ELSE s)

HostParsed(s, p) ==
    IF p.ok /\ p.scheme # << >> /\ p.hostname # << >> THEN p.hostname
    ELSE HostByText(s)

\* get_host(url_or_host): the lower-cased hostname when urlparse finds a
\* scheme and a hostname; else the text in front of the first "/"
get_host(s) == HostParsed(s, urlparse(s))

\* split_segments(path): runs of "/" collapse, the empty pieces are dropped
split_segments(path) == SplitSegs(IF path = << >> THEN << "/" >> ELSE path)

\* is_file_segment(seg): the segment has a "." and what follows its last
\* ".", lower-cased, is a known file extension
is_file_segment(seg) ==
    /\ seg # << >>
    /\ DotIdxs(seg) # {}
    /\ \E e \in FILE_EXTS : Lower(RSplitLast(seg, ".")) = << e >>

\* add_node without the membership test: every call appends
add_node_always(nodes, value, ntype) ==
    Append(nodes, [id |-> value, value |-> value, type |-> ntype])

\* add_node(nodes, value, ntype): the dict keeps the first entry made for a
\* value, in insertion order
add_node(nodes, value, ntype) ==
    IF \E i \in 1..Len(nodes) : nodes[i].value = value THEN nodes
    ELSE Append(nodes, [id |-> value, value |-> value, type |-> ntype])

\* add_edge without the membership test: every call appends
add_edge_always(edges, src, tgt) ==
    Append(edges, [source |-> src, target |-> tgt, type |-> "contains"])

\* add_edge(edges, src, tgt): one entry per (src, tgt, 'contains')
add_edge(edges, src, tgt) ==
    IF \E i \in 1..Len(edges) :
           edges[i].source = src /\ edges[i].target = tgt /\ edges[i].type = "contains"
    THEN edges
    ELSE Append(edges, [source |-> src, target |-> tgt, type |-> "contains"])

\* the type of a host node
HostType(host) == IF host # apex_of(host) THEN "subdomain" ELSE "domain"

\* the walk with prev never advanced: every relationship leaves the host
WalkSegs_flat(g, host, segs) ==
    LET n == Len(segs)
        cum[i \in 0..n] ==
            IF i = 0 THEN << >> ELSE cum[i - 1] \o << "/" >> \o segs[i]
        walk[i \in 0..n] ==
            IF i = 0 THEN g
            ELSE [ nodes |-> add_node(walk[i - 1].nodes, host \o cum[i], "directory"),
                   edges |-> add_edge(walk[i - 1].edges, host, host \o cum[i]) ]
    IN  walk[n]

\* lines 98-106: the walk over segs; cum[i] is cumulative after segment i
\* and walk[i] the graph after segment i
WalkSegs(g, host, segs) ==
    LET n == Len(segs)
        cum[i \in 0..n] ==
            IF i = 0 THEN << >> ELSE cum[i - 1] \o << "/" >> \o segs[i]
        node_value(i) == host \o cum[i]
        ntype(i) == IF i = n /\ is_file_segment(segs[i])
                    THEN "endpoint" ELSE "directory"
        walk[i \in 0..n] ==
            IF i = 0 THEN g
            ELSE [ nodes |-> add_node(walk[i - 1].nodes, node_value(i), ntype(i)),
                   edges |-> add_edge(walk[i - 1].edges,
                                      IF i = 1 THEN host ELSE node_value(i - 1),
                                      node_value(i)) ]
    IN  walk[n]

\* lines 89-106 without the branch of lines 93-97 for the query leaf
AddSegs_noleaf(g, host, segs, query) ==
    WalkSegs([g EXCEPT !.nodes = add_node(g.nodes, host, HostType(host))],
             host, segs)

\* lines 89-106: the host node, then the query leaf or the segment walk
AddSegs(g, host, segs, query) ==
    IF segs = << >> /\ query # << >>
    THEN [ nodes |-> add_node(add_node(g.nodes, host, HostType(host)),
                              host \o << "/", "?" >> \o query, "endpoint"),
           edges |-> add_edge(g.edges, host, host \o << "/", "?" >> \o query) ]
    ELSE WalkSegs([g EXCEPT !.nodes = add_node(g.nodes, host, HostType(host))],
                  host, segs)

\* lines 87-92
AddHosted(g, p, host) ==
    IF host = << >> THEN g
    ELSE AddSegs(g, host, split_segments(p.path), p.query)

\* lines 83-86; an exception of urlparse skips the URL (lines 107-108)
AddParsed(g, raw, p) ==
    IF ~p.ok THEN g
    ELSE AddHosted(g, p, IF p.hostname # << >> THEN p.hostname ELSE get_host(raw))

\* lines 82-108: one URL of the list folded into the graph
AddUrl(g, raw) == AddParsed(g, raw, urlparse(raw))

\* lines 81-108: the loop over urls
AddUrls(g, urls) ==
    LET fold[i \in 0..Len(urls)] ==
            IF i = 0 THEN g ELSE AddUrl(fold[i - 1], urls[i])
    IN  fold[Len(urls)]

\* lines 78-79: the loop over the subdomains
AddHosts(nodes, hosts) ==
    LET fold[i \in 0..Len(hosts)] ==
            IF i = 0 THEN nodes
            ELSE add_node(fold[i - 1], hosts[i], HostType(hosts[i]))
    IN  fold[Len(hosts)]

\* the filter of line 73 letting every URL through
Graphed_all(u) == TRUE

\* line 73: should_graph(classify_url(u))
Graphed(u) == should_graph(classify_url(u))

\* lines 110-113
GraphOut(g) == [ nodes |-> g.nodes, relationships |-> g.edges ]

\* build_hierarchy(discovered): pages (urls when pages is empty) and api,
\* filtered by should_graph(classify_url(u)); the subdomains first
build_hierarchy(discovered) ==
    GraphOut(AddUrls([ nodes |-> AddHosts(<< >>, discovered.subdomains),
                       edges |-> << >> ],
                     SelectSeq((IF discovered.pages # << >> THEN discovered.pages
                                ELSE discovered.urls) \o discovered.api,
                               Graphed)))

\* re.sub(r'/+', '/', path): a "/" that follows a "/" is dropped
CollapseSlashes(path) ==
    LET fold[i \in 0..Len(path)] ==
            IF i = 0 THEN << >>
            ELSE IF path[i] = "/" /\ i > 1 /\ path[i - 1] = "/" THEN fold[i - 1]
            ELSE Append(fold[i - 1], path[i])
    IN  fold[Len(path)]

\* lines 123-128: host + path, the path "/" when empty, its runs of "/"
\* collapsed and a trailing "/" removed unless it is all of the path
HostAndPath(host, path) ==
    host \o (IF Len(CollapseSlashes(path)) > 1
                 /\ CollapseSlashes(path)[Len(CollapseSlashes(path))] = "/"
              THEN SubSeq(CollapseSlashes(path), 1, Len(CollapseSlashes(path)) - 1)
              ELSE CollapseSlashes(path))

\* normalize_matched_url(raw): "" when urlparse raises or finds no host
normalize_matched_url(raw) ==
    IF ~urlparse(raw).ok THEN << >>
    ELSE IF urlparse(raw).hostname = << >> THEN << >>
    ELSE HostAndPath(urlparse(raw).hostname,
                     IF urlparse(raw).path = << >> THEN << "/" >> ELSE urlparse(raw).path)

\* dict.get(key, [])
GetList(d, key) == IF key \in DOMAIN d THEN d[key] ELSE << >>

\* dict.setdefault(key, []).append(x)
AppendTo(d, key, x) ==
    [ k \in DOMAIN d \cup { key } |-> IF k = key THEN Append(GetList(d, key), x) ELSE d[k] ]

\* '/' in value
HasSlash(value) == \E i \in 1..Len(value) : value[i] = "/"

\* lines 184-186: the finding is appended to the list of every path node
\* whose value is a prefix of the normalized URL (the loop has no break; the
\* order in which it visits the nodes does not show in the lists)
AddByPath(by_path, path_values, normalized, finding) ==
    [ v \in DOMAIN by_path \cup { w \in path_values : StartsWith(normalized, w) } |->
        IF StartsWith(normalized, v) /\ v \in path_values
        THEN Append(GetList(by_path, v), finding) ELSE by_path[v] ]

\* lines 177-186: the loop over the nuclei findings; by_host and by_path map
\* a host, a node value, to the list of its findings
NucleiMaps(path_values, nuclei_findings) ==
    LET fold[i \in 0..Len(nuclei_findings)] ==
            IF i = 0 THEN [ by_host |-> << >>, by_path |-> << >> ]
            ELSE IF normalize_matched_url(nuclei_findings[i].url) = << >> THEN fold[i - 1]
            ELSE [ by_host |->
                     AppendTo(fold[i - 1].by_host,
                              CutAt(normalize_matched_url(nuclei_findings[i].url), {"/"}).head,
                              nuclei_findings[i]),
                   by_path |->
                     AddByPath(fold[i - 1].by_path, path_values,
                               normalize_matched_url(nuclei_findings[i].url),
                               nuclei_findings[i]) ]
    IN  fold[Len(nuclei_findings)]

\* node['vulns'] = v with the lists of an earlier call kept in front
SetVulns_extend(node, v) ==
    IF "vulns" \in DOMAIN node
    THEN ("vulns" :> [ nmap |-> node.vulns.nmap \o v.nmap,
                       nuclei |-> node.vulns.nuclei \o v.nuclei ]) @@ node
    ELSE ("vulns" :> v) @@ node

\* node['vulns'] = v: the key is set, the other keys of the dict are kept
SetVulns(node, v) == ("vulns" :> v) @@ node

\* lines 188-205: the vulns of one node
NodeVulns(node, nmap_by_host, maps) ==
    IF ~HasSlash(node.value)
    THEN [ nmap |-> GetList(nmap_by_host, node.value),
           nuclei |-> GetList(maps.by_host, node.value) ]
    ELSE [ nmap |-> << >>, nuclei |-> GetList(maps.by_path, node.value) ]

\* lines 188-206: the loop over the nodes
AttachAll(nodes, nmap_by_host, maps) ==
    [ i \in 1..Len(nodes) |-> SetVulns(nodes[i], NodeVulns(nodes[i], nmap_by_host, maps)) ]

\* attach_vulns(nodes, target, clean_dir), with nmap_by_host and
\* nuclei_findings what load_nmap_vuln and load_nuclei_vuln read from the
\* files of target in clean_dir
attach_vulns(nodes, nmap_by_host, nuclei_findings) ==
    IF nmap_by_host = << >> /\ nuclei_findings = << >> THEN nodes
    ELSE AttachAll(nodes, nmap_by_host,
                   NucleiMaps({ nodes[i].value : i \in { k \in 1..Len(nodes) :
                                                           HasSlash(nodes[k].value) } },
                              nuclei_findings))

(***************************************************************************)
(* recon/js_route_discovery.py                                             *)
(*                                                                         *)
(* A script text is the record of what the four patterns match in it:      *)
(* urls (URL_REGEX), fetches (FETCH_REGEX), paths (PATH_REGEX) and hashes  *)
(* (HASH_ROUTE_REGEX, the group after the "#").  The functions are         *)
(* translated as written; line 18 (FETCH_REGEX) raises re.error when the   *)
(* module is loaded, see ReconImported.                                    *)
(***************************************************************************)

\* lines 15-18: whether the module's patterns compile, so that the module
\* loads.  Line 18 builds FETCH_REGEX from a raw string with doubled
\* backslashes: "\\(" there is an escaped backslash followed by an opening
\* parenthesis that is never closed, and re.compile raises re.error
\* (missing ), unterminated subpattern).
JsModuleLoads == FALSE

\* JsDiscoveryConfig.max_js_files
max_js_files == 5

\* _normalize_candidate(raw, base_url)
normalize_candidate(raw, base_url) ==
    IF raw = << >> THEN << >>
    ELSE IF StartsWith(raw, << "/", "/" >>)
         THEN urlparse(base_url).scheme \o << ":" >> \o raw
    ELSE IF StartsWith(raw, << "http", ":", "/", "/" >>)
            \/ StartsWith(raw, << "https", ":", "/", "/" >>) THEN raw
    ELSE IF StartsWith(raw, << "#", "/" >>) THEN urljoin(base_url, Tail(raw)).value
    ELSE IF StartsWith(raw, << "/" >>) THEN urljoin(base_url, raw).value
    ELSE << >>

\* lines 86-100: the candidates of the URL, fetch and path patterns
JsCandidates(js_text, base_url) ==
    { normalize_candidate(m, base_url) :
        m \in js_text.urls \cup js_text.fetches \cup js_text.paths } \ { << >> }

\* lines 101-104: the hash routes
JsHashRoutes(js_text, base_url) ==
    { normalize_candidate(<< "#" >> \o m, base_url) : m \in js_text.hashes } \ { << >> }

\* lines 106-108: the candidates normalized against the base, without the
\* empty results
JsNormalized(cands, base_url) ==
    { normalize_url(base_url, c) : c \in cands } \ { << >> }

\* lines 109-118: asset -> assets, feed -> feeds, api -> api, anything
\* else -> routes
JsBuckets(routes0, normalized) ==
    [ routes |-> routes0 \cup { u \in normalized :
                                  classify_url(u) \notin {"asset", "feed", "api"} },
      api    |-> { u \in normalized : classify_url(u) = "api" },
      assets |-> { u \in normalized : classify_url(u) = "asset" },
      feeds  |-> { u \in normalized : classify_url(u) = "feed" } ]

\* extract_js_endpoints(js_text, base_url): the hash routes go to routes
extract_js_endpoints(js_text, base_url) ==
    JsBuckets(JsHashRoutes(js_text, base_url),
              JsNormalized(JsCandidates(js_text, base_url), base_url))

NoEndpoints == [ routes |-> {}, api |-> {}, assets |-> {}, feeds |-> {} ]

\* lines 142-143: buckets[key].update(found[key])
MergeEndpoints(a, b) ==
    [ routes |-> a.routes \cup b.routes, api |-> a.api \cup b.api,
      assets |-> a.assets \cup b.assets, feeds |-> a.feeds \cup b.feeds ]

\* extract_script_urls(html, base_url) as a set: the src values joined to
\* the base, those that start with "http"; raises (ok = FALSE) when urljoin
\* raises on a src
extract_script_urls(html, base_url) ==
    [ ok   |-> \A src \in html.scripts : urljoin(base_url, src).ok,
      urls |-> { u \in { urljoin(base_url, src).value : src \in html.scripts } :
                   Len(u) >= 1 /\ u[1] \in {"http", "https"} } ]

\* the orders in which a set can be listed
Orders(S) ==
    { f \in [1..Cardinality(S) -> S] :
        \A i, j \in 1..Cardinality(S) : f[i] = f[j] => i = j }

\* the tokens of script URLs in the order of Python's string comparison
TokenOrder ==
    << ".", "/", ":", "a", "app", "com", "example", "http", "https", "js",
       "landing", "other", "static", "vendor" >>

TokenRank(t) == CHOOSE k \in 1..Len(TokenOrder) : TokenOrder[k] = t

\* a < b for two strings: at the first position where they differ the token
\* of a comes first, or a is a proper prefix of b
Before(a, b) ==
    \E k \in 1..Len(b) :
        /\ \A j \in 1..(k - 1) : j <= Len(a) /\ a[j] = b[j]
        /\ Len(a) >= k - 1
        /\ (Len(a) = k - 1 \/ TokenRank(a[k]) < TokenRank(b[k]))

\* sorted(urls)
Sorted(urls) ==
    CHOOSE sq \in Orders(urls) :
        \A i, j \in 1..Len(sq) : i < j => Before(sq[i], sq[j])

\* script_urls[: max_js_files]
FirstN(sq, n) == SubSeq(sq, 1, IF Len(sq) < n THEN Len(sq) ELSE n)

\* lines 136-143: the loop over the scripts; fetched[u] is what _fetch_js
\* returned for u, "" (<< >> here, the value NoText) for a failed fetch, an
\* error status, an oversized or an empty body
NoText == << >>

JsLoop(script_urls, fetched, base_url) ==
    LET fold[i \in 0..Len(script_urls)] ==
            IF i = 0 THEN NoEndpoints
            ELSE IF fetched[script_urls[i]] = NoText THEN fold[i - 1]
            ELSE MergeEndpoints(fold[i - 1],
                                extract_js_endpoints(fetched[script_urls[i]], base_url))
    IN  fold[Len(script_urls)]

\* lines 134-148: the scripts cut to max_js_files, analysed and returned
DiscoverScripts(script_urls, fetched, base_url) ==
    [ ok |-> TRUE, result |-> JsLoop(script_urls, fetched, base_url),
      scripts |-> script_urls ]

\* line 129: an exception of extract_script_urls leaves discover_js_routes
DiscoverFound(found, fetched, base_url) ==
    IF ~found.ok
    THEN [ ok |-> FALSE, result |-> NoEndpoints, scripts |-> << >> ]
    ELSE DiscoverScripts(FirstN(Sorted(found.urls), max_js_files), fetched, base_url)

\* discover_js_routes(html, base_url, config, headers) with empty whitelist
\* and blacklist: (buckets, script_urls), or an exception (ok = FALSE)
discover_js_routes(html, base_url, fetched) ==
    DiscoverFound(extract_script_urls(html, base_url), fetched, base_url)

(***************************************************************************)
(* recon/html_link_discovery.py                                            *)
(*                                                                         *)
(* An HTML text is the record of what the extractors find in it: hrefs     *)
(* (the values of href, src, action, data, poster), targets (the           *)
(* "target": "..." values) and scripts (the src of the script tags).       *)
(***************************************************************************)

\* lines 53-60: whether the import of JsDiscoveryConfig, discover_js_routes,
\* classify_url and normalize_url succeeded.  The first import runs
\* recon/js_route_discovery.py, whose line 18 compiles FETCH_REGEX from a raw
\* string with doubled backslashes: "\\(" there is an escaped backslash and
\* an opening parenthesis that is never closed, re.compile raises re.error,
\* the except clause of line 56 catches it and sets the four names to None.
ReconImported == JsModuleLoads

\* is_http_url(u): re.match(r"^https?://", u, re.I)
is_http_url(u) ==
    /\ Len(u) >= 4
    /\ LowerTok(u[1]) \in {"http", "https"}
    /\ SubSeq(u, 2, 4) = << ":", "/", "/" >>

\* absolute_url(base, href): urljoin, href itself when urljoin raises
absolute_url(base, href) ==
    IF urljoin(base, href).ok THEN urljoin(base, href).value ELSE href

\* extract_links(html, base_url): the non-empty attribute values made
\* absolute, those that are http(s) URLs
extract_links(html, base_url) ==
    { u \in { absolute_url(base_url, v) : v \in html.hrefs \ { << >> } } : is_http_url(u) }

\* extract_search_targets(html)
extract_search_targets(html) == html.targets

\* normalize_existing(u): u itself when normalize_url is None
normalize_existing(u) == IF ReconImported THEN normalize_url(u, u) ELSE u

\* s.strip(): blanks removed at both ends
Strip(s) ==
    IF \A k \in 1..Len(s) : s[k] = " " THEN << >>
    ELSE SubSeq(s, CHOOSE a \in 1..Len(s) : s[a] # " " /\ \A k \in 1..(a - 1) : s[k] = " ",
                   CHOOSE b \in 1..Len(s) : s[b] # " " /\ \A k \in (b + 1)..Len(s) : s[k] = " ")

\* build_query_urls(base_url, seeds): one URL per seed that is not blank,
\* joined with "&" when the base has a "?" already, else with "?"
build_query_urls(base_url, seeds) ==
    { base_url \o << (IF \E k \in 1..Len(base_url) : base_url[k] = "?"
                      THEN "&" ELSE "?"), "query", "=" >> \o Strip(seeds[n]) :
        n \in { j \in 1..Len(seeds) : Strip(seeds[j]) # << >> } }

\* the scope test with the suffix match on the apex without the dot
InScope_nodot(host, apex) == host = apex \/ EndsWith(host, apex)

\* host == apex or host.endswith('.' + apex)
InScope(host, apex) == host = apex \/ EndsWith(host, << "." >> \o apex)

\* the guard with the depth test relaxed to <=
ShouldFollow_le(depth, max_depth, host, apex, link, vis) ==
    depth <= max_depth /\ InScope(host, apex) /\ link \notin vis

\* lines 257-260: the link is scheduled when the depth allows, its host is
\* in scope and it is not visited yet
ShouldFollow(depth, max_depth, host, apex, link, vis) ==
    depth < max_depth /\ InScope(host, apex) /\ link \notin vis

\* the host of every link in scope taken for a subdomain, the apex too
LinkInScope_apexsub(st, link, host, path, kind, depth, apex, max_depth, vis) ==
    [ st EXCEPT
      !.pages = @ \cup {link},
      !.subdomains = @ \cup {host},
      !.q = IF ShouldFollow(depth, max_depth, host, apex, link, vis)
            THEN Append(@, << link, depth + 1 >>) ELSE @ ]

\* lines 237-261 for a link in scope: st holds the buckets and the queue,
\* vis the visited set
LinkInScope(st, link, host, path, kind, depth, apex, max_depth, vis) ==
    [ st EXCEPT
      !.assets = IF kind = "asset" THEN @ \cup {link} ELSE @,
      !.feeds  = IF kind = "feed" THEN @ \cup {link} ELSE @,
      !.api    = IF kind = "api" THEN @ \cup {link} ELSE @,
      !.pages  = IF kind \notin {"asset", "feed", "api"} THEN @ \cup {link} ELSE @,
      !.subdomains =
          IF EndsWith(host, << "." >> \o apex) /\ host # apex
          THEN @ \cup {host} ELSE @,
      !.directories_by_host =
          IF /\ ~(EndsWith(host, << "." >> \o apex) /\ host # apex)
             /\ host = apex
             /\ kind \in {"page", "api"}
             /\ path # << >>
             /\ SplitSegs(path) # << >>
          THEN @ \cup { << host, << "/" >> \o SplitSegs(path)[1] >> }
          ELSE @,
      !.q = IF ShouldFollow(depth, max_depth, host, apex, link, vis)
            THEN Append(@, << link, depth + 1 >>) ELSE @ ]

\* lines 222-236: the link is dropped when urlparse raises, when its scheme
\* does not start with http, when it has no host, when the host is not the
\* apex or under it; its kind is "page" when classify_url is None
LinkParsed(st, link, p, depth, apex, max_depth, vis) ==
    IF ~p.ok THEN st
    ELSE IF p.scheme \notin { << "http" >>, << "https" >> } THEN st
    ELSE IF p.hostname = << >> THEN st
    ELSE IF ~InScope(p.hostname, apex) THEN st
    ELSE LinkInScope(st, link, p.hostname, p.path,
                     IF ReconImported THEN classify_url(link) ELSE "page",
                     depth, apex, max_depth, vis)

\* lines 221-261: the loop over the links, in the order the set yields them
LinkLoop(st, order, depth, apex, max_depth, vis) ==
    LET fold[i \in 0..Len(order)] ==
            IF i = 0 THEN st
            ELSE LinkParsed(fold[i - 1], order[i], urlparse(order[i]),
                            depth, apex, max_depth, vis)
    IN  fold[Len(order)]

\* lines 269-273: sorted({normalize_existing(u) for u in S if normalize_existing(u)})
Clean(S) == { normalize_existing(u) : u \in S } \ { << >> }

(***************************************************************************)
(* State                                                                   *)
(***************************************************************************)

VARIABLES
    cl_url,     \* classifier run: the argument of classify_url
    cl_kind,    \* classifier run: the value returned, << >> before the call
    cl_pc,      \* classifier run: "call" before, "done" after the call
    b_disc,     \* builder run: the discovery result handed to build_hierarchy
    b_out,      \* builder run: the hierarchy built from b_disc
    b_out2,     \* builder run: the hierarchy built from b_disc with its lists permuted
    b_pc,       \* builder run: "start", "built", "rebuilt", "attached", "reattached"
    b_find,     \* builder run: the findings attach_vulns loads: nmap (host ->
                \*   findings) and nuclei (list of findings)
    b_att,      \* builder run: the hierarchy after attach_vulns
    b_att2,     \* builder run: the hierarchy after a second attach_vulns
    args,       \* crawl: the arguments start_urls, apex, max_pages, max_depth,
                \*   js_config, seed_queries, rate_limit_s, headless, whether
                \*   the requests module was imported, and the site crawled
    visited, q, discovered_urls, pages, api, feeds, assets, routes, js_files,
    query_urls, network_requests, subdomains, directories_by_host,
                \* crawl: its local variables of the same names
    pc,         \* crawl: "loop" in the while loop, "break" after the break of
                \*   line 184, "done" after the return
    result,     \* crawl: the value returned
    fetches,    \* crawl: how many times requests.get of line 186 was called, per URL
    last,       \* crawl: the last iteration: its URL, depth, outcome and whether
                \*   it slept (line 263), the size of visited when it began,
                \*   the links extracted from its page (those its loop of line
                \*   221 went over, when it came there) and the final URL r.url
    served,     \* crawl: how many references, redirects and headless results the
                \*   site has served so far
    j_in,       \* script analysis run: the function called (fn) and its arguments:
                \*   text (js_text), html, fetched (what _fetch_js returns per
                \*   script URL) and base (base_url)
    j_out,      \* script analysis run: whether the call raised, the buckets and
                \*   the script URLs returned
    j_pc        \* script analysis run: "call" before, "done" after the call

cl_vars == << cl_url, cl_kind, cl_pc >>
b_vars == << b_disc, b_out, b_out2, b_pc, b_find, b_att, b_att2 >>
buckets == << pages, api, feeds, assets, routes, js_files, query_urls,
              network_requests, subdomains, directories_by_host >>
k_vars == << args, visited, q, discovered_urls, buckets, pc, result, fetches,
             last, served >>
j_vars == << j_in, j_out, j_pc >>

vars == << cl_vars, b_vars, k_vars, j_vars >>

NoGraph == [ nodes |-> << >>, relationships |-> << >> ]
NoDisc == [ pages |-> << >>, urls |-> << >>, api |-> << >>, subdomains |-> << >>,
            directories_by_host |-> {} ]
NoLast == [ url |-> << >>, depth |-> 0, outcome |-> "none", slept |-> FALSE,
           seen |-> 0, links |-> {}, final |-> << >> ]

\* the variables of the runs a specification does not make
IdleClassify == cl_url = << >> /\ cl_kind = << >> /\ cl_pc = "idle"
NoFindings == [ nmap |-> << >>, nuclei |-> << >> ]
IdleBuild ==
    /\ b_disc = NoDisc /\ b_out = NoGraph /\ b_out2 = NoGraph /\ b_pc = "idle"
    /\ b_find = NoFindings /\ b_att = NoGraph /\ b_att2 = NoGraph
IdleCrawl ==
    /\ args = << >>
    /\ visited = {} /\ q = << >> /\ discovered_urls = {}
    /\ pages = {} /\ api = {} /\ feeds = {} /\ assets = {} /\ routes = {}
    /\ js_files = {} /\ query_urls = {} /\ network_requests = {}
    /\ subdomains = {} /\ directories_by_host = {}
    /\ pc = "idle" /\ result = << >> /\ fetches = << >> /\ last = NoLast
    /\ served = 0
IdleJs == j_in = << >> /\ j_out = << >> /\ j_pc = "idle"

(***************************************************************************)
(* Classifier runs: classify_url applied to one input string               *)
(***************************************************************************)

\* most directory segments in front of the file name of a classifier input
MaxDirs == 2

DirSegs ==
    { << "a" >>, << "static" >>, << "api" >>, << "API" >>, << "v1" >>,
      << "rss" >>, << "x", ".", "txt" >> }

FileStems ==
    { << "a" >>, << "robots" >>, << "sitemap" >>, << "favicon" >>,
      << "manifest" >>, << "rss" >>, << "search" >>, << "a", ".", "json" >> }

FileExts ==
    { << >>, << ".", "txt" >>, << ".", "xml" >>, << ".", "json" >>,
      << ".", "png" >>, << ".", "PNG" >>, << ".", "html" >>, << ".", "php" >> }

\* file names, the empty one for a path that ends with "/"
FileNames == { << >> } \cup { st \o e : st \in FileStems, e \in FileExts }

RECURSIVE DirPaths(_)
DirPaths(n) ==
    IF n = 0 THEN { << >> }
    ELSE LET shorter == DirPaths(n - 1)
         IN  shorter \cup { d \o << "/" >> \o sg : d \in shorter, sg \in DirSegs }

\* paths: "/" dir "/" dir ... "/" file
ClassifyPaths(n) == { d \o << "/" >> \o f : d \in DirPaths(n), f \in FileNames }

\* what stands around the path: nothing, an origin, an origin with query and
\* fragment, an origin that urlparse rejects
ClassifyInputs(n) ==
    ClassifyPaths(n)
    \cup { << "https", ":", "/", "/", "example", ".", "com" >> \o pa : pa \in ClassifyPaths(n) }
    \cup { << "HTTPS", ":", "/", "/", "example", ".", "com" >> \o pa
              \o << "?", "q", "=", "x", ".", "png", "#", "/", "rss" >> : pa \in ClassifyPaths(n) }
    \cup { << "https", ":", "/", "/", "[", "bad" >> \o pa : pa \in ClassifyPaths(n) }

InitClassify ==
    /\ cl_url \in ClassifyInputs(MaxDirs)
    /\ cl_kind = << >>
    /\ cl_pc = "call"
    /\ IdleBuild
    /\ IdleCrawl
    /\ IdleJs

\* kind = classify_url(url)
Classify ==
    /\ cl_pc = "call"
    /\ cl_kind' = classify_url(cl_url)
    /\ cl_pc' = "done"
    /\ UNCHANGED << cl_url, b_vars, k_vars, j_vars >>

NextClassify == Classify

SpecClassify == InitClassify /\ [][NextClassify]_vars

(***************************************************************************)
(* Claims about classify_url (SpecClassify)                                *)
(***************************************************************************)

\* C9: classify_url is total: for every input string, one that urlparse
\* rejects included, the value returned is one of page, api, asset, feed.
C9_ClassifyTotal ==
    cl_pc = "done" => cl_kind \in Categories

\* The rules of the classifier in their priority order, on the lower-cased
\* path; the extension is the part of the file name after its last ".".
RefClassify(url) ==
    LET path  == Lower(urlparse(url).path)
        fname == RSplitLast(path, "/")
        fext  == IF \E i \in 1..Len(fname) : fname[i] = "."
                 THEN RSplitLast(fname, ".") ELSE << >>
        apiHint == \E h \in API_HINTS : Contains(path, h)
    IN  CASE \E h \in FEED_HINTS : EndsWith(path, h) -> "feed"
          [] OTHER ->
        CASE fname \in { << "robots", ".", "txt" >>, << "sitemap", ".", "xml" >> } -> "page"
          [] OTHER ->
        CASE \/ \E h \in ASSET_NAME_HINTS : Contains(fname, h)
             \/ \E h \in ASSET_PATH_HINTS : Contains(path, h) -> "asset"
          [] OTHER ->
        CASE fext \in { << "xml" >>, << "txt" >> } -> "asset"
          [] OTHER ->
        CASE fext = << "json" >> -> (IF apiHint THEN "api" ELSE "asset")
          [] OTHER ->
        CASE fext \in { << e >> : e \in ASSET_EXTS } -> "asset"
          [] OTHER ->
        CASE apiHint -> "api"
          [] OTHER -> "page"

\* C10: on every input that urlparse accepts, classify_url returns what the
\* eight rules give when applied in their fixed priority order.
C10_ClassifyByPriority ==
    (cl_pc = "done" /\ urlparse(cl_url).ok) => cl_kind = RefClassify(cl_url)

\* C10 witness: a manifest.json under /api/ was classified, and the asset
\* name hint won over the API hint and the json extension.
C10_Witness ==
    /\ cl_pc = "done"
    /\ urlparse(cl_url).ok
    /\ urlparse(cl_url).path = << "/", "api", "/", "manifest", ".", "json" >>
    /\ cl_kind = "asset"

(***************************************************************************)
(* Builder runs: build_hierarchy applied to a discovery result, and to the *)
(* same result with its URL lists reordered                                *)
(***************************************************************************)

\* longest pages list of a discovery result
MaxUrls == 2

Origin(host) == << "https", ":", "/", "/" >> \o host

ApexHost == << "example", ".", "com" >>
SubHost  == << "a", ".", "example", ".", "com" >>

BuildUrls ==
    { Origin(SubHost) \o << "/", "blog", "/", "post1", ".", "html" >>,
      Origin(SubHost) \o << "/", "blog", "/", "post2", ".", "html" >>,
      Origin(SubHost) \o << "/", "blog" >>,
      Origin(ApexHost) \o << "/", "x", ".", "php" >>,
      Origin(ApexHost) \o << "/", "x", ".", "php", "/", "y" >>,
      Origin(ApexHost) \o << "/", "?", "q", "=", "1" >>,
      Origin(ApexHost),
      Origin(ApexHost) \o << "/", "static", "/", "logo", ".", "png" >> }

BuildApiLists ==
    { << >>,
      << Origin(ApexHost) \o << "/", "api", "/", "rss" >> >>,
      << Origin(ApexHost) \o << "/", "api", "/", "users" >> >>,
      << Origin(ApexHost) \o << "/", "api", "/", "users" >>,
         Origin(ApexHost) \o << "/", "api", "/", "users", ".", "json", "/", "v1", "/", "x" >> >> }

BuildSubdomainLists == { << >>, << SubHost >>, << ApexHost, SubHost >> }

\* the lists over S of length at most n
RECURSIVE SeqsUpTo(_, _)
SeqsUpTo(S, n) ==
    IF n = 0 THEN { << >> }
    ELSE LET shorter == SeqsUpTo(S, n - 1)
         IN  shorter \cup { Append(sq, x) : sq \in { t \in shorter : Len(t) = n - 1 }, x \in S }

\* the reorderings of a list
Reorderings(sq) ==
    { [i \in 1..Len(sq) |-> sq[f[i]]] :
        f \in { g \in [1..Len(sq) -> 1..Len(sq)] :
                  \A i, j \in 1..Len(sq) : g[i] = g[j] => i = j } }

\* crawl, lines 246-253: the (host, directory) pairs the crawler records for
\* the URLs of a list: "/" and the first segment of each URL on the apex host
\* that has one
DirEntries(urls) ==
    { << urlparse(urls[i]).hostname,
         << "/" >> \o SplitSegs(urlparse(urls[i]).path)[1] >> :
        i \in { k \in 1..Len(urls) : /\ urlparse(urls[k]).hostname = ApexHost
                                     /\ SplitSegs(urlparse(urls[k]).path) # << >> } }

\* a discovery result: directories_by_host holds the entries of its pages
\* and api, which the crawler recorded as links
InitBuild ==
    /\ \E pg \in SeqsUpTo(BuildUrls, MaxUrls), ap \in BuildApiLists,
          sd \in BuildSubdomainLists :
          b_disc = [ pages |-> pg, urls |-> pg, api |-> ap, subdomains |-> sd,
                     directories_by_host |-> DirEntries(pg \o ap) ]
    /\ b_out = NoGraph
    /\ b_out2 = NoGraph
    /\ b_pc = "start"
    /\ b_find = NoFindings /\ b_att = NoGraph /\ b_att2 = NoGraph
    /\ IdleClassify
    /\ IdleCrawl
    /\ IdleJs

\* hierarchy = build_hierarchy(discovered)
Build ==
    /\ b_pc = "start"
    /\ b_out' = build_hierarchy(b_disc)
    /\ b_pc' = "built"
    /\ UNCHANGED << b_disc, b_out2, b_find, b_att, b_att2, cl_vars, k_vars, j_vars >>

\* build_hierarchy on the same discovery result with pages and api reordered
BuildPermuted ==
    /\ b_pc = "built"
    /\ \E pg \in Reorderings(b_disc.pages), ap \in Reorderings(b_disc.api) :
          b_out2' = build_hierarchy([b_disc EXCEPT !.pages = pg, !.urls = pg, !.api = ap])
    /\ b_pc' = "rebuilt"
    /\ UNCHANGED << b_disc, b_out, b_find, b_att, b_att2, cl_vars, k_vars, j_vars >>

NextBuild == Build \/ BuildPermuted

SpecBuild == InitBuild /\ [][NextBuild]_vars

(***************************************************************************)
(* Claims about build_hierarchy (SpecBuild)                                *)
(***************************************************************************)

NodeSet(h) == { << h.nodes[i].value, h.nodes[i].type >> : i \in 1..Len(h.nodes) }

EdgeSet(h) ==
    { << h.relationships[i].source, h.relationships[i].target, h.relationships[i].type >> :
        i \in 1..Len(h.relationships) }

\* C7: build_hierarchy is order-independent: with the URLs of pages and api
\* permuted, the set of nodes (value and type) and the set of relationships
\* are the same.
C7_OrderIndependent ==
    b_pc = "rebuilt" => /\ NodeSet(b_out2) = NodeSet(b_out)
                        /\ EdgeSet(b_out2) = EdgeSet(b_out)

\* C8: the output of build_hierarchy holds at most one node per value and at
\* most one contains relationship per (source, target).
C8_NoDuplicates ==
    b_pc # "start" =>
        /\ \A i, j \in 1..Len(b_out.nodes) :
               b_out.nodes[i].value = b_out.nodes[j].value => i = j
        /\ \A i, j \in 1..Len(b_out.relationships) :
               ( /\ b_out.relationships[i].source = b_out.relationships[j].source
                 /\ b_out.relationships[i].target = b_out.relationships[j].target
                 /\ b_out.relationships[i].type = "contains"
                 /\ b_out.relationships[j].type = "contains" ) => i = j

\* C8 witness: two URLs of the input share host and directory prefix, and the
\* hierarchy built from them has the shared directory and both leaves.
C8_Witness ==
    /\ b_pc = "built"
    /\ \E i, j \in 1..Len(b_disc.pages) :
          /\ b_disc.pages[i] = Origin(SubHost) \o << "/", "blog", "/", "post1", ".", "html" >>
          /\ b_disc.pages[j] = Origin(SubHost) \o << "/", "blog", "/", "post2", ".", "html" >>
    /\ Len(b_out.nodes) = 4
    /\ Len(b_out.relationships) = 3

\* the URLs build_hierarchy walks: pages (urls without pages) and api, those
\* tagged page or api whose host is known
Walked(d) ==
    { u \in { ((IF d.pages # << >> THEN d.pages ELSE d.urls) \o d.api)[i] :
                i \in 1..Len((IF d.pages # << >> THEN d.pages ELSE d.urls) \o d.api) } :
        /\ Graphed(u)
        /\ urlparse(u).ok
        /\ urlparse(u).hostname # << >> }

\* host + "/" + seg1 + ... + "/" + segk
PrefixValue(host, segs, k) ==
    LET cum[i \in 0..k] == IF i = 0 THEN host ELSE cum[i - 1] \o << "/" >> \o segs[i]
    IN  cum[k]

\* C12: for every graphed URL the node of each proper path prefix has type
\* directory, the node of the full path has type endpoint when its last
\* segment has a file extension and directory otherwise, and each of these
\* values has one node with one relationship into it.
C12_PrefixTyping ==
    b_pc # "start" =>
        \A u \in Walked(b_disc) :
            LET host == urlparse(u).hostname
                segs == split_segments(urlparse(u).path)
            IN  \A k \in 1..Len(segs) :
                    /\ Cardinality({ i \in 1..Len(b_out.nodes) :
                                       b_out.nodes[i].value = PrefixValue(host, segs, k) }) = 1
                    /\ \A i \in 1..Len(b_out.nodes) :
                           b_out.nodes[i].value = PrefixValue(host, segs, k) =>
                               b_out.nodes[i].type =
                                   IF k = Len(segs) /\ is_file_segment(segs[k])
                                   THEN "endpoint" ELSE "directory"
                    /\ Cardinality({ i \in 1..Len(b_out.relationships) :
                                       b_out.relationships[i].target
                                           = PrefixValue(host, segs, k) }) = 1

\* the values of the nodes that the walk of a URL makes: its path prefixes
\* under its host, or its query leaf when it has no path segment
UrlNodes(host, segs, query) ==
    { PrefixValue(host, segs, k) : k \in 1..Len(segs) }
    \cup (IF segs = << >> /\ query # << >>
          THEN { host \o << "/", "?" >> \o query } ELSE {})

UrlNodesParsed(u, p) ==
    IF ~p.ok THEN {}
    ELSE UrlNodes(IF p.hostname # << >> THEN p.hostname ELSE get_host(u),
                  split_segments(p.path), p.query)

\* the node values of the URLs of a list that classify_url tags page or api
PageAndApiNodes(input) ==
    UNION { UrlNodesParsed(input[i], urlparse(input[i])) :
              i \in { k \in 1..Len(input) : classify_url(input[k]) \in {"page", "api"} } }

\* every node of h that is not a host node, and the target of every
\* relationship, has a value in S
OnlyNodes(h, S) ==
    /\ \A i \in 1..Len(h.nodes) :
          h.nodes[i].type \notin {"domain", "subdomain"} => h.nodes[i].value \in S
    /\ \A i \in 1..Len(h.relationships) : h.relationships[i].target \in S

\* C17: every node of the hierarchy that is not a host node is a path
\* prefix or the query leaf of an input URL that classify_url tags page or
\* api, and every relationship leads to such a node: a URL tagged asset or
\* feed in pages or api adds no node and no relationship.
C17_OnlyGraphedUrls ==
    b_pc # "start" =>
        OnlyNodes(b_out,
                  PageAndApiNodes((IF b_disc.pages # << >> THEN b_disc.pages
                                   ELSE b_disc.urls) \o b_disc.api))

\* C17 witness: pages holds an asset and a page below the same host, api
\* holds a feed, and the hierarchy has the host and the page only.
C17_Witness ==
    /\ b_pc = "built"
    /\ b_disc.pages = << Origin(ApexHost) \o << "/", "static", "/", "logo", ".", "png" >>,
                         Origin(ApexHost) \o << "/", "x", ".", "php" >> >>
    /\ b_disc.api = << Origin(ApexHost) \o << "/", "api", "/", "rss" >> >>
    /\ classify_url(b_disc.pages[1]) = "asset"
    /\ classify_url(b_disc.api[1]) = "feed"
    /\ NodeSet(b_out) = { << ApexHost, "domain" >>,
                          << ApexHost \o << "/", "x", ".", "php" >>, "endpoint" >> }
    /\ Len(b_out.relationships) = 1

\* C15: for every host h and directory d of directories_by_host the
\* hierarchy built from the discovery result holds exactly one node of value
\* h + d, and a relationship from the node of h to it.
C15_DirectoriesInGraph ==
    b_pc # "start" =>
        \A e \in b_disc.directories_by_host :
            /\ Cardinality({ i \in 1..Len(b_out.nodes) :
                               b_out.nodes[i].value = e[1] \o e[2] }) = 1
            /\ \E i \in 1..Len(b_out.relationships) :
                   /\ b_out.relationships[i].source = e[1]
                   /\ b_out.relationships[i].target = e[1] \o e[2]

(***************************************************************************)
(* Attachment runs: main of build_hierarchical_json.py builds the          *)
(* hierarchy and hands its nodes to attach_vulns (lines 219-222); here     *)
(* attach_vulns is then applied once more to what it returned.  No word of *)
(* a URL is the beginning of another word, so that str.startswith agrees   *)
(* with the prefix test on tokens.                                         *)
(***************************************************************************)

\* longest list of nuclei findings
MaxFindings == 2

AttachUrls ==
    { Origin(SubHost) \o << "/", "blog", "/", "post1", ".", "html" >>,
      Origin(SubHost) \o << "/", "blog" >>,
      Origin(ApexHost) \o << "/", "x", ".", "php" >>,
      Origin(ApexHost) \o << "/", "?", "q", "=", "1" >> }

\* the findings of a nuclei file in the order of the file: id and the URL
\* matched (finding['url'] or finding['matchedAt'] or ''), one on a leaf,
\* one on a directory written with upper case and a trailing "/", one with a
\* query, one on the bare host, one whose URL does not parse
NucleiFindings ==
    << [ id |-> "n1", url |-> Origin(SubHost) \o << "/", "blog", "/", "post1", ".", "html" >> ],
       [ id |-> "n2", url |-> << "https", ":", "/", "/", "a", ".", "Example", ".", "com",
                                 "/", "/", "blog", "/" >> ],
       [ id |-> "n3", url |-> Origin(ApexHost) \o << "/", "x", ".", "php", "?", "id", "=", "1" >> ],
       [ id |-> "n4", url |-> Origin(ApexHost) ],
       [ id |-> "n5", url |-> << "https", ":", "/", "/", "[", "bad", "/" >> ] >>

\* the files with at most n of the findings
NucleiLists(n) ==
    { SelectSeq(NucleiFindings, LAMBDA f : f.id \in ids) :
        ids \in { I \in SUBSET { NucleiFindings[i].id : i \in 1..Len(NucleiFindings) } :
                    Cardinality(I) <= n } }

\* what load_nmap_vuln returns: nothing, findings of the subdomain, findings
\* of a host that has no node
NmapByHost ==
    { << >>,
      (SubHost :> << [ id |-> "CVE-1", port |-> "443" ] >>),
      (<< "other", ".", "com" >> :> << [ id |-> "CVE-2", port |-> "80" ] >>) }

InitAttach ==
    /\ \E pg \in SeqsUpTo(AttachUrls, MaxUrls) :
          b_disc = [ pages |-> pg, urls |-> pg, api |-> << >>, subdomains |-> << >>,
                     directories_by_host |-> {} ]
    /\ \E nm \in NmapByHost, nu \in NucleiLists(MaxFindings) :
          b_find = [ nmap |-> nm, nuclei |-> nu ]
    /\ b_out = NoGraph /\ b_out2 = NoGraph
    /\ b_att = NoGraph /\ b_att2 = NoGraph
    /\ b_pc = "start"
    /\ IdleClassify
    /\ IdleCrawl
    /\ IdleJs

\* hierarchy['nodes'] = attach_vulns(hierarchy['nodes'], target, clean_dir)
Attach ==
    /\ b_pc = "built"
    /\ b_att' = [ b_out EXCEPT !.nodes = attach_vulns(@, b_find.nmap, b_find.nuclei) ]
    /\ b_pc' = "attached"
    /\ UNCHANGED << b_disc, b_out, b_out2, b_find, b_att2, cl_vars, k_vars, j_vars >>

\* attach_vulns applied to its own result with the same findings
AttachAgain ==
    /\ b_pc = "attached"
    /\ b_att2' = [ b_att EXCEPT !.nodes = attach_vulns(@, b_find.nmap, b_find.nuclei) ]
    /\ b_pc' = "reattached"
    /\ UNCHANGED << b_disc, b_out, b_out2, b_find, b_att, cl_vars, k_vars, j_vars >>

NextAttach == Build \/ Attach \/ AttachAgain

SpecAttach == InitAttach /\ [][NextAttach]_vars

(***************************************************************************)
(* Claims about attach_vulns (SpecAttach)                                  *)
(***************************************************************************)

\* the nodes of g are those of h in value, id and type, in the same order
SameNodes(g, h) ==
    /\ Len(g.nodes) = Len(h.nodes)
    /\ \A i \in 1..Len(h.nodes) :
          /\ g.nodes[i].value = h.nodes[i].value
          /\ g.nodes[i].id = h.nodes[i].id
          /\ g.nodes[i].type = h.nodes[i].type

\* C16: attach_vulns adds and removes no node, changes no value, id or type
\* and no relationship, and applied a second time with the same findings it
\* leaves every node with the vulns field of the first application.
C16_AttachIdempotent ==
    /\ b_pc \in {"attached", "reattached"} =>
          /\ SameNodes(b_att, b_out)
          /\ b_att.relationships = b_out.relationships
    /\ b_pc = "reattached" =>
          /\ SameNodes(b_att2, b_out)
          /\ b_att2.relationships = b_out.relationships
          /\ \A i \in 1..Len(b_att.nodes) :
                /\ "vulns" \in DOMAIN b_att2.nodes[i] <=> "vulns" \in DOMAIN b_att.nodes[i]
                /\ "vulns" \in DOMAIN b_att.nodes[i] =>
                       b_att2.nodes[i].vulns = b_att.nodes[i].vulns

\* C16 witness: a finding on a leaf was attached to the leaf and to its
\* directory, the host node has its nmap finding, and the second application
\* gave the same.
C16_Witness ==
    /\ b_pc = "reattached"
    /\ b_find.nmap # << >>
    /\ \E i, j, k \in 1..Len(b_att2.nodes) :
          /\ b_att2.nodes[i].value = SubHost \o << "/", "blog", "/", "post1", ".", "html" >>
          /\ Len(b_att2.nodes[i].vulns.nuclei) = 1
          /\ b_att2.nodes[j].value = SubHost \o << "/", "blog" >>
          /\ Len(b_att2.nodes[j].vulns.nuclei) = 2
          /\ b_att2.nodes[k].value = SubHost
          /\ Len(b_att2.nodes[k].vulns.nmap) = 1
          /\ Len(b_att2.nodes[k].vulns.nuclei) = 2

\* the walked URLs without a path segment, and those of them with a query
NoSegments(d) == { u \in Walked(d) : split_segments(urlparse(u).path) = << >> }

QueryOnly(d) == { u \in NoSegments(d) : urlparse(u).query # << >> }

\* the value of the query leaf of a URL
QueryLeaf(u) == urlparse(u).hostname \o << "/", "?" >> \o urlparse(u).query

\* C26: a graphed URL without a path segment and with a query has exactly
\* one node host + "/?" + query, typed endpoint, with exactly one
\* relationship into it, from the host node, and none out of it; and when no
\* graphed URL has a path segment (and no subdomains are given) the nodes
\* are the hosts and these leaves only, with one relationship per leaf.
C26_QueryLeaf ==
    b_pc # "start" =>
        /\ \A u \in QueryOnly(b_disc) :
               /\ Cardinality({ i \in 1..Len(b_out.nodes) :
                                  b_out.nodes[i].value = QueryLeaf(u) }) = 1
               /\ \A i \in 1..Len(b_out.nodes) :
                      b_out.nodes[i].value = QueryLeaf(u) => b_out.nodes[i].type = "endpoint"
               /\ Cardinality({ i \in 1..Len(b_out.relationships) :
                                  b_out.relationships[i].target = QueryLeaf(u) }) = 1
               /\ \A i \in 1..Len(b_out.relationships) :
                      /\ b_out.relationships[i].target = QueryLeaf(u) =>
                             b_out.relationships[i].source = urlparse(u).hostname
                      /\ b_out.relationships[i].source # QueryLeaf(u)
        /\ (b_disc.subdomains = << >> /\ NoSegments(b_disc) = Walked(b_disc)) =>
               /\ { b_out.nodes[i].value : i \in 1..Len(b_out.nodes) } =
                      { urlparse(u).hostname : u \in Walked(b_disc) }
                      \cup { QueryLeaf(u) : u \in QueryOnly(b_disc) }
               /\ Len(b_out.relationships) =
                      Cardinality({ QueryLeaf(u) : u \in QueryOnly(b_disc) })

\* C26 witness: the input holds a URL with a query and no path and the bare
\* URL of the same host; the hierarchy is the host, the leaf and one
\* relationship.
C26_Witness ==
    /\ b_pc = "built"
    /\ b_disc.pages = << Origin(ApexHost) \o << "/", "?", "q", "=", "1" >>, Origin(ApexHost) >>
    /\ b_disc.api = << >>
    /\ NodeSet(b_out) = { << ApexHost, "domain" >>,
                          << ApexHost \o << "/", "?", "q", "=", "1" >>, "endpoint" >> }
    /\ b_out.relationships =
           << [ source |-> ApexHost, target |-> ApexHost \o << "/", "?", "q", "=", "1" >>,
                type |-> "contains" ] >>

\* the finding is in the list
InList(list, finding) == \E k \in 1..Len(list) : list[k] = finding

\* the values of the path nodes that are a prefix of the normalized URL
PrefixNodes(nodes, normalized) ==
    { nodes[i].value : i \in { j \in 1..Len(nodes) :
                                 /\ HasSlash(nodes[j].value)
                                 /\ StartsWith(normalized, nodes[j].value) } }

\* the positions of "/" in a node value
SlashIdxs(v) == { i \in 1..Len(v) : v[i] = "/" }

\* the value a path node hangs below: the host for a query leaf, else the
\* value in front of its last "/"
ParentValue(v) ==
    LET first == CHOOSE i \in SlashIdxs(v) : \A j \in SlashIdxs(v) : i <= j
        final == CHOOSE i \in SlashIdxs(v) : \A j \in SlashIdxs(v) : j <= i
    IN  IF first < Len(v) /\ v[first + 1] = "?"
        THEN SubSeq(v, 1, first - 1)
        ELSE SubSeq(v, 1, final - 1)

NodeValues(h) == { h.nodes[i].value : i \in 1..Len(h.nodes) }

\* C29: the hierarchy is a forest rooted at the host nodes: both ends of a
\* relationship are node values; a node whose value has a "/" has exactly one
\* relationship into it, from its parent value; a node without "/" has none
\* into it; and no non-empty set of values (of targets: a member has a
\* relationship into it) has a relationship into each of its members from a
\* member, that is, there is no cycle.
C29_Forest ==
    b_pc # "start" =>
        /\ \A i \in 1..Len(b_out.relationships) :
               /\ b_out.relationships[i].source \in NodeValues(b_out)
               /\ b_out.relationships[i].target \in NodeValues(b_out)
        /\ \A v \in NodeValues(b_out) :
               LET into == { i \in 1..Len(b_out.relationships) :
                               b_out.relationships[i].target = v }
               IN  IF SlashIdxs(v) = {}
                   THEN into = {}
                   ELSE /\ Cardinality(into) = 1
                        /\ \A i \in into : b_out.relationships[i].source = ParentValue(v)
        /\ ~\E S \in SUBSET { b_out.relationships[i].target :
                                  i \in 1..Len(b_out.relationships) } :
               /\ S # {}
               /\ \A v \in S : \E i \in 1..Len(b_out.relationships) :
                      /\ b_out.relationships[i].target = v
                      /\ b_out.relationships[i].source \in S

\* C29 witness: two trees of depth two, one below each host.
C29_Witness ==
    /\ b_pc = "built"
    /\ b_disc.pages = << Origin(SubHost) \o << "/", "blog", "/", "post1", ".", "html" >>,
                         Origin(ApexHost) \o << "/", "x", ".", "php", "/", "y" >> >>
    /\ b_disc.api = << >>
    /\ EdgeSet(b_out) =
           { << SubHost, SubHost \o << "/", "blog" >>, "contains" >>,
             << SubHost \o << "/", "blog" >>,
                SubHost \o << "/", "blog", "/", "post1", ".", "html" >>, "contains" >>,
             << ApexHost, ApexHost \o << "/", "x", ".", "php" >>, "contains" >>,
             << ApexHost \o << "/", "x", ".", "php" >>,
                ApexHost \o << "/", "x", ".", "php", "/", "y" >>, "contains" >> }

\* C24: attach_vulns attaches a nuclei finding whose URL normalizes to
\* host + path to a path node exactly when the node's value is the longest
\* of the path node values that are a prefix of host + path, and to a host
\* node exactly when the node's value is that host.
C24_LongestPrefixOnly ==
    b_pc \in {"attached", "reattached"} =>
        \A n \in 1..Len(b_find.nuclei) :
            normalize_matched_url(b_find.nuclei[n].url) # << >> =>
                \A i \in 1..Len(b_att.nodes) :
                    IF HasSlash(b_att.nodes[i].value)
                    THEN InList(b_att.nodes[i].vulns.nuclei, b_find.nuclei[n]) <=>
                             /\ b_att.nodes[i].value \in
                                    PrefixNodes(b_att.nodes,
                                                normalize_matched_url(b_find.nuclei[n].url))
                             /\ \A w \in PrefixNodes(b_att.nodes,
                                                     normalize_matched_url(b_find.nuclei[n].url)) :
                                    Len(w) <= Len(b_att.nodes[i].value)
                    ELSE InList(b_att.nodes[i].vulns.nuclei, b_find.nuclei[n]) <=>
                             b_att.nodes[i].value =
                                 CutAt(normalize_matched_url(b_find.nuclei[n].url), {"/"}).head

(***************************************************************************)
(* Crawl runs: crawl(start_urls, apex, max_pages, max_depth, ...) against  *)
(* a site that answers each fetch with some response.  One step is one     *)
(* iteration of the while loop of line 177, or the return.                 *)
(***************************************************************************)

MaxPages == 3
MaxDepth == 1
MaxRefs == 2

Site == Origin(ApexHost)
HttpSite == << "http", ":", "/", "/" >> \o ApexHost
Landing == << "https", ":", "/", "/", "other", ".", "com", "/", "landing" >>

\* main, lines 318-322: the target itself, or the https and the http URL of a
\* bare host
StartLists == { << Site >>, << Site, HttpSite >> }

\* the arguments besides start_urls, apex, max_pages, max_depth: the defaults
\* of crawl; the values main passes (js_config is None there, as
\* JsDiscoveryConfig is); a caller that passes a js_config and asks for the
\* headless pass without delay; and a run where the import of requests
\* failed (requests is None)
Profiles ==
    { [ js_config |-> FALSE, seed_queries |-> << >>, rate_limit_s |-> 3,
        headless |-> FALSE, requests |-> TRUE ],
      [ js_config |-> FALSE, seed_queries |-> << << "sql" >>, << " " >> >>,
        rate_limit_s |-> 3, headless |-> FALSE, requests |-> TRUE ],
      [ js_config |-> TRUE, seed_queries |-> << >>, rate_limit_s |-> 0,
        headless |-> TRUE, requests |-> TRUE ],
      [ js_config |-> FALSE, seed_queries |-> << >>, rate_limit_s |-> 3,
        headless |-> FALSE, requests |-> FALSE ] }

\* a caller that asks for the headless pass with seed queries and the
\* default delay, and the run where requests is None
RenderedProfiles ==
    { [ js_config |-> FALSE, seed_queries |-> << << "sql" >> >>, rate_limit_s |-> 3,
        headless |-> TRUE, requests |-> TRUE ],
      [ js_config |-> FALSE, seed_queries |-> << >>, rate_limit_s |-> 3,
        headless |-> FALSE, requests |-> FALSE ] }

\* what a page of the site can hold: attribute values, search targets and
\* script sources
Hrefs ==
    { << "/", "about" >>,
      << "/", "about", "#", "top" >>,
      << "/", "static", "/", "logo", ".", "png" >>,
      HttpSite,
      Origin(SubHost) \o << "/", "blog" >>,
      << "https", ":", "/", "/", "evil", "example", ".", "com", "/", "x" >> }

Targets == { << "https", ":", "/", "/", "other", ".", "com", "/", "search" >> }

ScriptSrcs == { << "https", ":", "/", "/", "[", "bad", "/", "x", ".", "js" >> }

\* a site whose pages load one script that the site serves
AppJs == << "/", "static", "/", "app", ".", "js" >>

ScriptedRefs == { << "href", HttpSite >>, << "script", AppJs >> }

\* args.site tells which site the run crawls
Refs ==
    IF args.site = "scripts" THEN ScriptedRefs
    ELSE { << "href", v >> : v \in Hrefs } \cup { << "target", v >> : v \in Targets }
         \cup { << "script", v >> : v \in ScriptSrcs }

\* the src of a script tag is among the attribute values too
HtmlOf(R) ==
    [ hrefs   |-> { r[2] : r \in { x \in R : x[1] \in {"href", "script"} } },
      targets |-> { r[2] : r \in { x \in R : x[1] = "target" } },
      scripts |-> { r[2] : r \in { x \in R : x[1] = "script" } } ]

NoHtml == HtmlOf({})

RECURSIVE RefSets(_)
RefSets(n) ==
    IF n = 0 THEN { {} }
    ELSE { {} } \cup { { r } : r \in Refs }
         \cup UNION { { R \cup { r } : r \in Refs } : R \in RefSets(n - 1) }

HtmlCost(html) ==
    Cardinality(html.hrefs) + Cardinality(html.targets)

\* the HTML responses to a request of url the site can give with n
\* references left: r.url is url or, after a redirect, the landing page
Responses(url, n) ==
    { [ url |-> url, html |-> HtmlOf(R) ] : R \in RefSets(n) }
    \cup (IF n >= 1
          THEN { [ url |-> Landing, html |-> HtmlOf(R) ] : R \in RefSets(n - 1) }
          ELSE {})

RespCost(url, resp) == HtmlCost(resp.html) + (IF resp.url = url THEN 0 ELSE 1)

\* the text of the script the site serves
ScriptText ==
    [ urls    |-> { << "https", ":", "/", "/", "other", ".", "com", "/", "app" >> },
      fetches |-> { << "/", "api", "/", "item" >> },
      paths   |-> { << "/", "img", "/", "logo", ".", "png" >>,
                    << "/", "login" >> },
      hashes  |-> { << "/", "profile" >> } ]

\* what _fetch_js can return for a script
JsTexts == { NoText, ScriptText }

\* what headless_discover can do: return ("", []) without playwright,
\* raise, or return the rendered page and the requests it made
HeadlessResults(n) ==
    { [ raised |-> FALSE, html |-> NoHtml, requests |-> {} ],
      [ raised |-> TRUE, html |-> NoHtml, requests |-> {} ] }
    \cup (IF n >= 1
          THEN { [ raised |-> FALSE,
                   html |-> HtmlOf({ << "href", << "/", "about" >> >> }),
                   requests |-> { << "https", ":", "/", "/", "other", ".", "com",
                                     "/", "track" >> } ] }
          ELSE {})

NotRendered == [ raised |-> FALSE, html |-> NoHtml, requests |-> {} ]

HeadlessCost(hl) == IF hl.requests = {} THEN 0 ELSE 1

\* the loop condition with the budget test relaxed to <=
LoopCond_le(queue, vis, max_pages) == queue # << >> /\ Cardinality(vis) <= max_pages

\* line 177: the loop condition
LoopCond(queue, vis, max_pages) == queue # << >> /\ Cardinality(vis) < max_pages

\* the visited test never firing
AlreadyVisited_never(url, vis) == FALSE

\* line 179: the visited test
AlreadyVisited(url, vis) == url \in vis

\* lines 162-164: the queue seeded with the start URLs at depth 0
Seeded(start_urls) == [ i \in 1..Len(start_urls) |-> << start_urls[i], 0 >> ]

\* the buckets and the queue after popleft
Cur ==
    [ pages |-> pages, api |-> api, feeds |-> feeds, assets |-> assets,
      routes |-> routes, js_files |-> js_files, query_urls |-> query_urls,
      network_requests |-> network_requests, subdomains |-> subdomains,
      directories_by_host |-> directories_by_host, q |-> Tail(q) ]

\* lines 199-202: the search targets made absolute, those that are http(s) URLs
SearchPages(resp) ==
    { c \in { absolute_url(resp.url, t) : t \in extract_search_targets(resp.html) } :
        is_http_url(c) }

\* lines 193-202 with the query URLs kept out of pages
AfterFetch_querysonly(st, resp, seed_queries) ==
    [ st EXCEPT
      !.pages = @ \cup { resp.url } \cup SearchPages(resp),
      !.query_urls = IF seed_queries # << >>
                     THEN @ \cup build_query_urls(resp.url, seed_queries) ELSE @ ]

\* lines 193-202: the final URL, the query URLs and the search targets go to pages
AfterFetch(st, resp, seed_queries) ==
    [ st EXCEPT
      !.pages = @ \cup { resp.url }
                  \cup (IF seed_queries # << >>
                        THEN build_query_urls(resp.url, seed_queries) ELSE {})
                  \cup SearchPages(resp),
      !.query_urls = IF seed_queries # << >>
                     THEN @ \cup build_query_urls(resp.url, seed_queries) ELSE @ ]

\* lines 203-204: nothing without a js_config or when discover_js_routes is
\* None
Js(resp, fetched) ==
    IF args.js_config /\ ReconImported THEN discover_js_routes(resp.html, resp.url, fetched)
    ELSE [ ok |-> TRUE, result |-> NoEndpoints, scripts |-> << >> ]

\* what _fetch_js returns for each script of the page
JsFetches(resp) ==
    IF args.js_config /\ ReconImported
       /\ extract_script_urls(resp.html, resp.url).ok
    THEN [ extract_script_urls(resp.html, resp.url).urls -> JsTexts ]
    ELSE { << >> }

\* lines 205-213
AfterJs(st, jsr) ==
    [ st EXCEPT
      !.js_files = @ \cup { jsr.scripts[i] : i \in 1..Len(jsr.scripts) },
      !.routes = @ \cup jsr.result.routes,
      !.api = @ \cup jsr.result.api,
      !.feeds = @ \cup jsr.result.feeds,
      !.assets = @ \cup jsr.result.assets ]

\* line 215, or nothing without headless
Rendered(n) == IF args.headless THEN HeadlessResults(n) ELSE { NotRendered }

\* lines 219-220
AfterHeadless(st, hl) == [ st EXCEPT !.network_requests = @ \cup hl.requests ]

\* lines 194 and 216-218: the links of the page and of its rendering
PageLinks(resp, hl) ==
    extract_links(resp.html, resp.url) \cup extract_links(hl.html, resp.url)

\* the assignment of the buckets and the queue
Record(st) ==
    /\ pages' = st.pages /\ api' = st.api /\ feeds' = st.feeds
    /\ assets' = st.assets /\ routes' = st.routes /\ js_files' = st.js_files
    /\ query_urls' = st.query_urls /\ network_requests' = st.network_requests
    /\ subdomains' = st.subdomains
    /\ directories_by_host' = st.directories_by_host
    /\ q' = st.q

\* lines 181-182: the URL is marked visited
MarkVisited ==
    /\ visited' = visited \cup { Head(q)[1] }
    /\ discovered_urls' = discovered_urls \cup { Head(q)[1] }

\* the record of the iteration that took the head of the queue
Iteration(outcome, slept, links, final) ==
    [ url |-> Head(q)[1], depth |-> Head(q)[2], outcome |-> outcome,
      slept |-> slept, seen |-> Cardinality(visited), links |-> links,
      final |-> final ]

\* lines 178-183: the entry leaves the queue and its URL is marked visited;
\* the iteration does not come to the loop over the links
Dequeued(outcome, slept) ==
    /\ MarkVisited
    /\ last' = Iteration(outcome, slept, {}, << >>)

\* line 186: one more call of requests.get for url
Fetched(f, url, outcome) ==
    [ u \in DOMAIN f \cup { url } |->
        IF u # url THEN f[u]
        ELSE IF u \in DOMAIN f THEN Append(f[u], outcome) ELSE << outcome >> ]

\* the entry of crawl on the site named
CrawlCalled(site) ==
    /\ \E pr \in (IF site = "rendered" THEN RenderedProfiles ELSE Profiles),
          st \in StartLists, mp \in 0..MaxPages, md \in 0..MaxDepth :
          args = [ start_urls |-> st, apex |-> ApexHost, max_pages |-> mp,
                   max_depth |-> md, js_config |-> pr.js_config,
                   seed_queries |-> pr.seed_queries,
                   rate_limit_s |-> pr.rate_limit_s, headless |-> pr.headless,
                   requests |-> pr.requests, site |-> site ]
    /\ q = Seeded(args.start_urls)
    /\ visited = {} /\ discovered_urls = {}
    /\ pages = {} /\ api = {} /\ feeds = {} /\ assets = {} /\ routes = {}
    /\ js_files = {} /\ query_urls = {} /\ network_requests = {}
    /\ subdomains = {} /\ directories_by_host = {}
    /\ pc = "loop" /\ result = << >> /\ fetches = << >> /\ last = NoLast
    /\ served = 0
    /\ IdleClassify
    /\ IdleBuild
    /\ IdleJs

InitCrawl == CrawlCalled("plain")

\* lines 178-180: the dequeued URL is visited already
CrawlSkip ==
    /\ pc = "loop"
    /\ LoopCond(q, visited, args.max_pages)
    /\ AlreadyVisited(Head(q)[1], visited)
    /\ q' = Tail(q)
    /\ last' = Iteration("skip", FALSE, {}, << >>)
    /\ UNCHANGED << args, visited, discovered_urls, buckets, pc, result, fetches,
                    served, cl_vars, b_vars, j_vars >>

\* lines 178-184: requests is None, the loop is left
CrawlBreak ==
    /\ pc = "loop"
    /\ LoopCond(q, visited, args.max_pages)
    /\ ~AlreadyVisited(Head(q)[1], visited)
    /\ ~args.requests
    /\ q' = Tail(q)
    /\ Dequeued("break", FALSE)
    /\ pc' = "break"
    /\ UNCHANGED << args, buckets, result, fetches, served, cl_vars, b_vars, j_vars >>

\* the iteration without the except clause of line 264: an exception of
\* requests.get leaves crawl
CrawlFetchFails_fatal ==
    /\ pc = "loop"
    /\ LoopCond(q, visited, args.max_pages)
    /\ ~AlreadyVisited(Head(q)[1], visited)
    /\ args.requests
    /\ \E outcome \in {"raise", "status", "nonhtml"} :
          /\ fetches' = Fetched(fetches, Head(q)[1], outcome)
          /\ Dequeued(outcome, FALSE)
          /\ pc' = IF outcome = "raise" THEN "raised" ELSE pc
    /\ q' = Tail(q)
    /\ UNCHANGED << args, buckets, result, served, cl_vars, b_vars, j_vars >>

\* the failed fetch with pages.add(r.url) moved in front of the status test
CrawlFetchFails_records ==
    /\ pc = "loop"
    /\ LoopCond(q, visited, args.max_pages)
    /\ ~AlreadyVisited(Head(q)[1], visited)
    /\ args.requests
    /\ \E outcome \in {"raise", "status", "nonhtml"} :
          /\ fetches' = Fetched(fetches, Head(q)[1], outcome)
          /\ Dequeued(outcome, FALSE)
          /\ pages' = IF outcome = "raise" THEN pages ELSE pages \cup { Head(q)[1] }
    /\ q' = Tail(q)
    /\ UNCHANGED << args, api, feeds, assets, routes, js_files, query_urls,
                    network_requests, subdomains, directories_by_host, pc, result,
                    served, cl_vars, b_vars, j_vars >>

\* lines 178-191, 264-265: requests.get raises, or the status is >= 400, or
\* the response is not HTML
CrawlFetchFails ==
    /\ pc = "loop"
    /\ LoopCond(q, visited, args.max_pages)
    /\ ~AlreadyVisited(Head(q)[1], visited)
    /\ args.requests
    /\ \E outcome \in {"raise", "status", "nonhtml"} :
          /\ fetches' = Fetched(fetches, Head(q)[1], outcome)
          /\ Dequeued(outcome, FALSE)
    /\ q' = Tail(q)
    /\ UNCHANGED << args, buckets, pc, result, served, cl_vars, b_vars, j_vars >>

\* the headless pass moved behind the loop over the links and the delay
HtmlHeadlessRaised_late(resp, jsr) ==
    /\ jsr.ok
    /\ \E order \in Orders(extract_links(resp.html, resp.url)) :
           Record(LinkLoop(AfterJs(AfterFetch(Cur, resp, args.seed_queries), jsr),
                           order, Head(q)[2], args.apex, args.max_depth,
                           visited \cup { Head(q)[1] }))
    /\ served' = served + RespCost(Head(q)[1], resp)
    /\ last' = Iteration("headless_raise", args.rate_limit_s # 0,
                         extract_links(resp.html, resp.url), resp.url)

\* lines 193-215 when headless_discover raises
HtmlHeadlessRaised(resp, jsr) ==
    /\ jsr.ok
    /\ Record(AfterJs(AfterFetch(Cur, resp, args.seed_queries), jsr))
    /\ served' = served + RespCost(Head(q)[1], resp)
    /\ last' = Iteration("headless_raise", FALSE, extract_links(resp.html, resp.url),
                         resp.url)

\* lines 178-215, 264-265: an HTML page whose headless rendering raises
CrawlHtmlHeadlessRaises ==
    /\ pc = "loop"
    /\ LoopCond(q, visited, args.max_pages)
    /\ ~AlreadyVisited(Head(q)[1], visited)
    /\ args.requests
    /\ args.headless
    /\ \E resp \in Responses(Head(q)[1], MaxRefs - served) :
          \E fetched \in JsFetches(resp) :
              HtmlHeadlessRaised(resp, Js(resp, fetched))
    /\ fetches' = Fetched(fetches, Head(q)[1], "headless_raise")
    /\ MarkVisited
    /\ UNCHANGED << args, pc, result, cl_vars, b_vars, j_vars >>

\* lines 193-263 without an exception, with the links taken in some order
HtmlDone(resp, jsr, hl) ==
    /\ jsr.ok
    /\ ~hl.raised
    /\ LET links == PageLinks(resp, hl)
       IN  /\ last' = Iteration("ok", args.rate_limit_s # 0, links, resp.url)
           /\ \E order \in Orders(links) :
                  Record(LinkLoop(AfterHeadless(AfterJs(AfterFetch(Cur, resp,
                                                                  args.seed_queries),
                                                        jsr),
                                                hl),
                                  order, Head(q)[2], args.apex, args.max_depth,
                                  visited \cup { Head(q)[1] }))
    /\ served' = served + RespCost(Head(q)[1], resp) + HeadlessCost(hl)

\* lines 178-263: an HTML page processed to the end of the iteration
CrawlHtml ==
    /\ pc = "loop"
    /\ LoopCond(q, visited, args.max_pages)
    /\ ~AlreadyVisited(Head(q)[1], visited)
    /\ args.requests
    /\ \E resp \in Responses(Head(q)[1], MaxRefs - served) :
          \E fetched \in JsFetches(resp),
             hl \in Rendered(MaxRefs - served - RespCost(Head(q)[1], resp)) :
              HtmlDone(resp, Js(resp, fetched), hl)
    /\ fetches' = Fetched(fetches, Head(q)[1], "ok")
    /\ MarkVisited
    /\ UNCHANGED << args, pc, result, cl_vars, b_vars, j_vars >>

\* lines 267-289: the result; a sorted list is given as the set of its
\* members, directories_by_host as the set of its (host, directory) pairs
Return ==
    /\ \/ pc = "break"
       \/ pc = "loop" /\ ~LoopCond(q, visited, args.max_pages)
    /\ result' =
          [ pages_crawled |-> Cardinality(visited),
            discovered |->
              [ subdomains |-> subdomains,
                directories_by_host |-> directories_by_host,
                urls |-> Clean(pages \cup routes),
                pages |-> Clean(pages \cup routes),
                api |-> Clean(api),
                feeds |-> Clean(feeds),
                assets |-> Clean(assets),
                routes |-> Clean(routes),
                js_files |-> js_files,
                requests |-> network_requests,
                query_urls |-> query_urls ] ]
    /\ pc' = "done"
    /\ UNCHANGED << args, visited, q, discovered_urls, buckets, fetches, last,
                    served, cl_vars, b_vars, j_vars >>

NextCrawl ==
    \/ CrawlSkip
    \/ CrawlBreak
    \/ CrawlFetchFails
    \/ CrawlHtmlHeadlessRaises
    \/ CrawlHtml
    \/ Return

SpecCrawl == InitCrawl /\ [][NextCrawl]_vars

\* crawl does not stop while it has a step to take: the interpreter runs the
\* loop on, and every call in an iteration returns or raises (requests.get
\* has a timeout)
SpecCrawlFair == SpecCrawl /\ WF_vars(NextCrawl)

\* crawl on the site whose pages load a script
InitScripted == CrawlCalled("scripts")

SpecScripted == InitScripted /\ [][NextCrawl]_vars

\* crawl with the headless pass and the delay asked for
InitRendered == CrawlCalled("rendered")

SpecRendered == InitRendered /\ [][NextCrawl]_vars

\* the same run, which does not stop while it has a step to take
SpecScriptedFair == SpecScripted /\ WF_vars(NextCrawl)

(***************************************************************************)
(* Claims about crawl, checked under SpecCrawl                             *)
(***************************************************************************)

\* the host of a URL is the apex or under it
UrlInScope(u) == urlparse(u).ok /\ InScope(urlparse(u).hostname, args.apex)

\* the outcomes of an iteration that called requests.get
FetchOutcomes == {"raise", "status", "nonhtml", "headless_raise", "ok"}

\* C1: after a crawl run every URL in the buckets pages/urls, api, feeds,
\* assets, routes and query_urls, and every host in subdomains and
\* directories_by_host, has a host that is the apex or ends with "." + apex.
C1_OutputInScope ==
    pc = "done" =>
        /\ \A u \in result.discovered.pages \cup result.discovered.urls
                    \cup result.discovered.api \cup result.discovered.feeds
                    \cup result.discovered.assets \cup result.discovered.routes
                    \cup result.discovered.query_urls : UrlInScope(u)
        /\ \A h \in result.discovered.subdomains : InScope(h, args.apex)
        /\ \A d \in result.discovered.directories_by_host : InScope(d[1], args.apex)

\* C2: a link that the classifier tags asset or feed is never appended to
\* the queue: every entry behind the seeds is tagged page or api.
C2_OnlyPagesAndApiEnqueued ==
    \A i \in 1..Len(q) :
        q[i][2] >= 1 => classify_url(q[i][1]) \in {"page", "api"}

\* C3: the visited set never holds more than max_pages URLs, an iteration
\* fetches only when it began with fewer than max_pages visited URLs, and
\* the reported pages_crawled is at most max_pages.
C3_VisitedWithinBudget ==
    /\ Cardinality(visited) <= args.max_pages
    /\ last.outcome \in FetchOutcomes => last.seen < args.max_pages
    /\ pc = "done" => result.pages_crawled <= args.max_pages

\* C3 witness: the run ended on the budget with an entry left in the queue.
C3_Witness ==
    /\ pc = "done"
    /\ args.max_pages = 2
    /\ result.pages_crawled = 2
    /\ last.outcome = "ok"
    /\ q # << >>

\* C4: every entry of the queue has a depth of at most max_depth, the seeds
\* have depth 0, no entry beyond max_depth is dequeued, and with
\* max_depth = 0 only start URLs are fetched.
C4_DepthWithinLimit ==
    /\ \A i \in 1..Len(q) :
          /\ q[i][2] <= args.max_depth
          /\ q[i][2] = 0 => \E k \in 1..Len(args.start_urls) :
                                q[i][1] = args.start_urls[k]
    /\ last.outcome # "none" => last.depth <= args.max_depth
    /\ args.max_depth = 0 =>
          \A u \in DOMAIN fetches : \E k \in 1..Len(args.start_urls) :
              u = args.start_urls[k]

\* C4 witness: with max_depth = 0 the link of the start page is recorded and
\* not scheduled.
C4_Witness ==
    /\ args.max_depth = 0
    /\ args.max_pages = 3
    /\ last.outcome = "ok"
    /\ last.url = Site
    /\ (Site \o << "/", "about" >>) \in pages
    /\ q = << >>
    /\ pc = "done"
    /\ DOMAIN fetches = { Site }

\* C5: within a run requests.get is called at most once per URL, whatever
\* its outcome, and only for a URL that is in visited already.
C5_FetchedAtMostOnce ==
    /\ \A u \in DOMAIN fetches : Len(fetches[u]) <= 1
    /\ DOMAIN fetches \subseteq visited

\* C5 witness: a second queue entry of a URL whose fetch failed was skipped.
C5_Witness ==
    /\ last.outcome = "skip"
    /\ last.url \in DOMAIN fetches
    /\ fetches[last.url] \in { << "raise" >>, << "status" >>, << "nonhtml" >> }
    /\ visited = { Site, HttpSite }

\* the keys of the discovered object of a result
DiscoveredKeys ==
    {"subdomains", "directories_by_host", "urls", "pages", "api", "feeds",
     "assets", "routes", "js_files", "requests", "query_urls"}

\* C11: no failure while handling one URL is fatal to a run: crawl is always
\* in its loop, behind the break or returned; an iteration that failed
\* leaves crawl in the loop, where its next step (the next entry of the
\* queue or the return) is possible; and the value returned holds
\* pages_crawled and every discovered key.
C11_FailuresNotFatal ==
    /\ pc \in {"loop", "break", "done"}
    /\ (last.outcome \in {"raise", "status", "nonhtml", "headless_raise"}
        /\ pc # "done") => (pc = "loop" /\ ENABLED NextCrawl)
    /\ pc = "done" =>
          /\ DOMAIN result = {"pages_crawled", "discovered"}
          /\ DOMAIN result.discovered = DiscoveredKeys
          /\ result.pages_crawled = Cardinality(visited)

\* C11 witness: the fetch of the first start URL raised, the second start
\* URL was processed after it, and the run returned its result.
C11_Witness ==
    /\ pc = "done"
    /\ args.start_urls = << Site, HttpSite >>
    /\ fetches = (Site :> << "raise" >>) @@ (HttpSite :> << "ok" >>)
    /\ HttpSite \in result.discovered.pages
    /\ result.pages_crawled = 2

\* lines 222-232: the link passes the filters in front of the classification
LinkKept(link) ==
    /\ urlparse(link).ok
    /\ urlparse(link).scheme \in { << "http" >>, << "https" >> }
    /\ urlparse(link).hostname # << >>
    /\ InScope(urlparse(link).hostname, args.apex)

\* C13: every in-scope link of a processed page is in the bucket (pages,
\* api, feeds, assets) that classify_url assigns to it and in none of the
\* other three, whatever the depth of the page.
C13_LinkInItsBucket ==
    last.outcome = "ok" =>
        \A link \in last.links :
            LinkKept(link) =>
                /\ link \in assets <=> classify_url(link) = "asset"
                /\ link \in feeds <=> classify_url(link) = "feed"
                /\ link \in api <=> classify_url(link) = "api"
                /\ link \in pages <=> classify_url(link) \notin {"asset", "feed", "api"}

\* the URL without its fragment: p._replace(fragment="").geturl()
Defragmented(url) == geturl([ urlparse(url) EXCEPT !.fragment = << >> ])

\* C19: a crawl run fetches at most one of the URLs that differ only in
\* their fragment: two fetched URLs that are equal once the fragment is
\* taken off are the same URL.
C19_OneFetchPerFragmentFamily ==
    \A u \in DOMAIN fetches :
        \A v \in DOMAIN fetches :
            Defragmented(u) = Defragmented(v) => u = v

\* C20: every URL that crawl appended to the queue behind the seeds has a
\* host that is the apex or ends with "." + apex; a link whose host is not
\* (such as "evil" + apex, without the dot) is never in the queue.
C20_EnqueuedInScope ==
    \A i \in 1..Len(q) :
        q[i][2] >= 1 =>
            /\ urlparse(q[i][1]).ok
            /\ \/ urlparse(q[i][1]).hostname = args.apex
               \/ EndsWith(urlparse(q[i][1]).hostname, << "." >> \o args.apex)

\* a page with a link to the host "evil" + apex and a link to a subdomain
\* was processed below max_depth: the subdomain link is in the queue, the
\* other is not.
C20_Witness ==
    /\ last.outcome = "ok"
    /\ last.depth < args.max_depth
    /\ << "https", ":", "/", "/", "evil", "example", ".", "com", "/", "x" >> \in last.links
    /\ Origin(SubHost) \o << "/", "blog" >> \in last.links
    /\ \E i \in 1..Len(q) : q[i] = << Origin(SubHost) \o << "/", "blog" >>, last.depth + 1 >>
    /\ \A i \in 1..Len(q) :
           q[i][1] # << "https", ":", "/", "/", "evil", "example", ".", "com", "/", "x" >>

\* C21: an iteration whose fetch raises, returns a status >= 400 or returns
\* a response that is not HTML takes its entry off the queue, adds the URL
\* to visited and changes nothing else: the queue gains no entry and pages,
\* api, feeds, assets, routes, js_files, requests, query_urls, subdomains
\* and directories_by_host stay as they were.
C21_FailedFetchFrame ==
    [][ (fetches' # fetches /\ last'.outcome \in {"raise", "status", "nonhtml"}) =>
            /\ visited' = visited \cup { Head(q)[1] }
            /\ q' = Tail(q)
            /\ UNCHANGED buckets ]_vars

\* C21 witness: a fetch failed behind a processed page, with the buckets
\* and the queue not empty.
C21_Witness ==
    /\ last.outcome \in {"raise", "status", "nonhtml"}
    /\ last.depth = 1
    /\ pages # {} /\ subdomains # {} /\ directories_by_host # {}
    /\ q # << >>

\* C22: with a rate limit that is not zero, a delay lies between any two
\* consecutive fetches whatever the outcome of the earlier one: when an
\* iteration that fetched is followed directly by another fetch, the earlier
\* iteration slept.
C22_DelayBetweenFetches ==
    [][ (fetches' # fetches /\ last.outcome \in FetchOutcomes
         /\ args.rate_limit_s # 0) => last.slept ]_vars

\* the synthetic query URL of a seed term on a page's final URL
QueryUrl(final, term) ==
    final \o << (IF \E k \in 1..Len(final) : final[k] = "?" THEN "&" ELSE "?"),
                "query", "=" >> \o term

\* C23: with seed terms configured, the iteration that processes a page puts
\* the query URL of every seed term that is not blank, built on the page's
\* final URL, into query_urls and pages; what is in these two sets stays in
\* them and is in query_urls and pages of the result; and the iteration adds
\* only its own URL to visited and only links of the page to the queue.
C23_QueryUrlsRecorded ==
    [][ /\ (fetches' # fetches /\ last'.outcome = "ok") =>
              /\ \A n \in 1..Len(args.seed_queries) :
                     Strip(args.seed_queries[n]) # << >> =>
                         /\ QueryUrl(last'.final, Strip(args.seed_queries[n])) \in query_urls'
                         /\ QueryUrl(last'.final, Strip(args.seed_queries[n])) \in pages'
              /\ visited' = visited \cup { Head(q)[1] }
              /\ Len(q') >= Len(q) - 1
              /\ \A i \in 1..Len(q') :
                     IF i < Len(q) THEN q'[i] = q[i + 1]
                     ELSE q'[i][1] \in last'.links
        /\ query_urls \subseteq query_urls'
        /\ query_urls \subseteq pages => query_urls' \subseteq pages'
        /\ pc' = "done" =>
              /\ query_urls \subseteq result'.discovered.query_urls
              /\ query_urls \subseteq result'.discovered.pages ]_vars

\* C23 witness: a page that was reached by a redirect was processed with a
\* seed term and a blank one, its query URL is in the result and was never
\* visited.
C23_Witness ==
    /\ pc = "done"
    /\ args.seed_queries = << << "sql" >>, << " " >> >>
    /\ last.outcome = "ok"
    /\ last.final = Landing
    /\ result.discovered.query_urls = { Landing \o << "?", "query", "=", "sql" >> }
    /\ Landing \o << "?", "query", "=", "sql" >> \in result.discovered.pages
    /\ Landing \o << "?", "query", "=", "sql" >> \notin visited

\* C25 (SpecScripted): a route that script analysis infers from the script
\* of a processed page is in the routes list of the result, and when it was
\* not observed as a link, a final URL, a search target or a query URL (it
\* is not in the set pages of crawl) it is not in the pages/urls list.
C25_RoutesApart ==
    (pc = "done" /\ args.js_config /\ last.outcome = "ok"
     /\ urljoin(last.final, AppJs).value \in last.links) =>
        \A u \in extract_js_endpoints(ScriptText, last.final).routes :
            /\ u \in result.discovered.routes
            /\ u \notin pages =>
                   /\ u \notin result.discovered.pages
                   /\ u \notin result.discovered.urls

\* C28: subdomains never holds the apex, every host in it ends with
\* '.' + apex, a host comes into it only in the iteration of a processed
\* page, as the host of a link of that page that passes the scope filter,
\* and the result reports the set as it is.
C28_Subdomains ==
    /\ [](\A h \in subdomains :
              h # args.apex /\ EndsWith(h, << "." >> \o args.apex))
    /\ [](pc = "done" => result.discovered.subdomains = subdomains)
    /\ [][ subdomains' # subdomains =>
              /\ fetches' # fetches
              /\ last'.outcome = "ok"
              /\ \A h \in subdomains' \ subdomains :
                     \E link \in last'.links :
                         LinkKept(link) /\ urlparse(link).hostname = h ]_vars

\* C28 witness: crawl has returned a subdomain after processing a page that
\* links to the apex and to the host under it.
C28_Witness ==
    /\ pc = "done"
    /\ result.discovered.subdomains # {}
    /\ last.outcome = "ok"
    /\ \E link \in last.links : LinkKept(link) /\ urlparse(link).hostname = args.apex
    /\ \E link \in last.links :
           urlparse(link).hostname \in result.discovered.subdomains

\* C30 (SpecRendered): when the headless pass raises on a fetched HTML page,
\* crawl stays in its loop with the entry off the queue and its URL visited,
\* the final URL of the page is in pages, no link of the page comes into
\* pages, api, feeds or assets (the final URL apart, which may be among its
\* own links), subdomains and directories_by_host are left as they were,
\* nothing is appended to the queue, and the iteration does not sleep.
C30_RaiseSkipsLinks ==
    [][ (fetches' # fetches /\ last'.outcome = "headless_raise") =>
            /\ pc' = "loop"
            /\ visited' = visited \cup { Head(q)[1] }
            /\ last'.final \in pages'
            /\ \A link \in last'.links \ { last'.final } :
                   /\ link \in pages' => link \in pages
                   /\ link \in api' => link \in api
                   /\ link \in feeds' => link \in feeds
                   /\ link \in assets' => link \in assets
            /\ subdomains' = subdomains
            /\ directories_by_host' = directories_by_host
            /\ q' = Tail(q)
            /\ ~last'.slept ]_vars

\* C30 witness: the headless pass has raised on the start page, fetched with
\* a delay asked for and depth to spare; the page links to the host under
\* the apex, which is in no bucket and not in the queue, and crawl goes on
\* with the next entry.
C30_Witness ==
    /\ pc = "loop"
    /\ last.outcome = "headless_raise"
    /\ args.rate_limit_s # 0
    /\ last.depth < args.max_depth
    /\ LoopCond(q, visited, args.max_pages)
    /\ last.final \in pages
    /\ QueryUrl(last.final, << "sql" >>) \in pages
    /\ Origin(SubHost) \o << "/", "blog" >> \in last.links
    /\ Origin(SubHost) \o << "/", "blog" >> \notin pages
    /\ subdomains = {}
    /\ \A i \in 1..Len(q) : q[i][1] # Origin(SubHost) \o << "/", "blog" >>

\* C27 (SpecScriptedFair, and SpecCrawlFair): crawl returns; when it has
\* left the loop the queue is empty or visited holds max_pages URLs, no
\* more, or the HTTP client is missing; and every iteration takes one entry off the queue and either adds its
\* URL, which was not visited, to visited, or finds the URL visited and
\* leaves visited and the rest of the queue as they were.
C27_Terminates ==
    /\ <>(pc = "done")
    /\ [](pc \in {"break", "done"} =>
              \/ q = << >>
              \/ Cardinality(visited) = args.max_pages
              \/ ~args.requests)
    /\ [][ (q' # q \/ visited' # visited) =>
              \/ /\ Head(q)[1] \notin visited
                 /\ visited' = visited \cup { Head(q)[1] }
                 /\ Len(q') >= Len(q) - 1
              \/ /\ Head(q)[1] \in visited
                 /\ visited' = visited
                 /\ q' = Tail(q) ]_vars

\* C27 witness: crawl has returned with its queue empty and pages left in
\* its budget, after an iteration that only dropped a duplicate entry.
C27_Witness ==
    /\ pc = "done"
    /\ q = << >>
    /\ last.outcome = "skip"
    /\ Cardinality(visited) >= 2
    /\ Cardinality(visited) < args.max_pages

(***************************************************************************)
(* Script analysis runs: a caller loads recon/js_route_discovery.py and    *)
(* calls extract_js_endpoints or discover_js_routes, as                    *)
(* scripts/self_check_html_discovery.py (line 7) and the crawler (lines    *)
(* 54, 204) do                                                             *)
(***************************************************************************)

\* what the patterns can match in a script text
JsUrlMatches == { << "https", ":", "/", "/", "other", ".", "com", "/", "app" >> }
JsFetchMatches == { << "/", "api", "/", "item" >> }
JsPathMatches ==
    { << "/", "img", "/", "logo", ".", "png" >>, << "/", "login" >>, << "/", "rss" >> }
JsHashMatches == { << "/", "profile" >>, << "/", "api", "/", "item" >> }

\* the script texts
JsInputs ==
    { [ urls |-> U, fetches |-> F, paths |-> P, hashes |-> H ] :
        U \in SUBSET JsUrlMatches, F \in SUBSET JsFetchMatches,
        P \in SUBSET JsPathMatches, H \in SUBSET JsHashMatches }

\* the script sources of a page
JsScriptSrcs ==
    { << "/", "static", "/", "app", ".", "js" >>,
      << "https", ":", "/", "/", "a", ".", "example", ".", "com", "/", "vendor", ".", "js" >> }

\* what _fetch_js returns for a script: "" or a text
JsFetchedTexts ==
    { NoText,
      [ urls |-> {}, fetches |-> JsFetchMatches, paths |-> { << "/", "login" >> },
        hashes |-> {} ] }

\* the value of a call that raised
JsRaised == [ raised |-> TRUE, buckets |-> NoEndpoints, scripts |-> << >> ]

InitJs ==
    /\ \/ \E t \in JsInputs :
              j_in = [ fn |-> "extract_js_endpoints", text |-> t, html |-> NoHtml,
                       fetched |-> << >>, base |-> Site ]
       \/ \E S \in SUBSET JsScriptSrcs :
              \E f \in [ extract_script_urls(HtmlOf({ << "script", x >> : x \in S }),
                                              Site).urls -> JsFetchedTexts ] :
                  j_in = [ fn |-> "discover_js_routes", text |-> NoText,
                           html |-> HtmlOf({ << "script", x >> : x \in S }),
                           fetched |-> f, base |-> Site ]
    /\ j_out = << >>
    /\ j_pc = "call"
    /\ IdleClassify
    /\ IdleBuild
    /\ IdleCrawl

\* from recon.js_route_discovery import extract_js_endpoints;
\* extract_js_endpoints(js_text, base_url)
JsExtract ==
    /\ j_pc = "call"
    /\ j_in.fn = "extract_js_endpoints"
    /\ j_out' = IF ~JsModuleLoads THEN JsRaised
                ELSE [ raised |-> FALSE,
                       buckets |-> extract_js_endpoints(j_in.text, j_in.base),
                       scripts |-> << >> ]
    /\ j_pc' = "done"
    /\ UNCHANGED << j_in, cl_vars, b_vars, k_vars >>

\* the value discover_js_routes returns or its exception
JsDiscovered(r) ==
    IF ~r.ok THEN JsRaised
    ELSE [ raised |-> FALSE, buckets |-> r.result, scripts |-> r.scripts ]

\* from recon.js_route_discovery import discover_js_routes;
\* discover_js_routes(html, base_url, config, headers)
JsDiscover ==
    /\ j_pc = "call"
    /\ j_in.fn = "discover_js_routes"
    /\ j_out' = IF ~JsModuleLoads THEN JsRaised
                ELSE JsDiscovered(discover_js_routes(j_in.html, j_in.base, j_in.fetched))
    /\ j_pc' = "done"
    /\ UNCHANGED << j_in, cl_vars, b_vars, k_vars >>

NextJs == JsExtract \/ JsDiscover

SpecJs == InitJs /\ [][NextJs]_vars

(***************************************************************************)
(* Claims about the script analysis (SpecJs)                               *)
(***************************************************************************)

\* the candidates of the URL, network-call and path patterns, resolved
ResolvedCandidates(text, base) == JsNormalized(JsCandidates(text, base), base)

\* C14: extract_js_endpoints returns buckets in which every resolved
\* candidate of the URL, network-call and path patterns is in the bucket of
\* its kind (asset -> assets, feed -> feeds, api -> api, anything else ->
\* routes), api, assets and feeds hold nothing else, and routes holds
\* besides its candidates exactly the hash routes.
C14_JsPartition ==
    (j_pc = "done" /\ j_in.fn = "extract_js_endpoints") =>
        /\ ~j_out.raised
        /\ j_out.buckets.assets =
               { u \in ResolvedCandidates(j_in.text, j_in.base) : classify_url(u) = "asset" }
        /\ j_out.buckets.feeds =
               { u \in ResolvedCandidates(j_in.text, j_in.base) : classify_url(u) = "feed" }
        /\ j_out.buckets.api =
               { u \in ResolvedCandidates(j_in.text, j_in.base) : classify_url(u) = "api" }
        /\ j_out.buckets.routes =
               { u \in ResolvedCandidates(j_in.text, j_in.base) :
                   classify_url(u) \notin {"asset", "feed", "api"} }
               \cup JsHashRoutes(j_in.text, j_in.base)

\* the scripts of a call of discover_js_routes that were analysed: those
\* among the first max_js_files for which _fetch_js returned a text
AnalysedScripts(html, base_url, fetched) ==
    LET script_urls == FirstN(Sorted(extract_script_urls(html, base_url).urls), max_js_files)
    IN  { u \in { script_urls[i] : i \in DOMAIN script_urls } : fetched[u] # NoText }

\* C18: the script list discover_js_routes returns holds only scripts that
\* were analysed: a script for which _fetch_js returned "" (failed fetch,
\* status >= 400, oversized body) is not in it, and the buckets are the
\* merge of the endpoints of the analysed scripts alone.
C18_JsFilesAnalysed ==
    (j_pc = "done" /\ j_in.fn = "discover_js_routes") =>
        /\ ~j_out.raised
        /\ \A i \in DOMAIN j_out.scripts :
               j_out.scripts[i] \in AnalysedScripts(j_in.html, j_in.base, j_in.fetched)
        /\ \A k \in DOMAIN NoEndpoints :
               j_out.buckets[k] =
                   UNION { extract_js_endpoints(j_in.fetched[u], j_in.base)[k] :
                             u \in AnalysedScripts(j_in.html, j_in.base, j_in.fetched) }

====
